---------------------------- MODULE Spec2Model ----------------------------
(***************************************************************************)
(* Model of src/slurm-activity/slurmled_nodes.py: the discrete node LED    *)
(* bank (NodeLEDController) and the comet strip engine                     *)
(* (LEDStripController) with its render thread, the two scheduler queries  *)
(* (SlurmNodeMonitor) and the poll loop (SlurmLEDMonitor.run).             *)
(*                                                                         *)
(* The specifications share the module's variables:                       *)
(*   SpecNode    - calls on one NodeLEDController (single caller thread);  *)
(*   SpecStrip   - the main thread calling start/stop/update_state on one  *)
(*                 LEDStripController, in any order, while its render      *)
(*                 threads run;                                            *)
(*   SpecRun     - the same controller called as SlurmLEDMonitor.run calls *)
(*                 it: start, update_state per poll, stop;                 *)
(*   SpecRunFair - SpecRun with every thread scheduled;                    *)
(*   SpecRunLoopFair - SpecRun with the render threads scheduled and the   *)
(*                 main thread free to make no further call;               *)
(*   SpecRender  - frames rendered by the dual-comet branch of the render  *)
(*                 loop, over a range of strip configurations;             *)
(*   SpecBrightness - calls of _comet_brightness over those configurations;*)
(*   SpecMonitor - SlurmLEDMonitor.run from construction to its end, with  *)
(*                 the signal handler;                                     *)
(*   SpecMonitorFair - SpecMonitor with the main thread scheduled in its   *)
(*                 poll loop;                                              *)
(*   SpecTest    - main() in test mode: test_sequence on the node bank,    *)
(*                 one set_node call per step, then cleanup;               *)
(*   SpecConstruct - one controller of either class constructed, then      *)
(*                 called.                                                 *)
(* Each specification holds the variables of the components it does not   *)
(* run at their constructed values.                                        *)
(***************************************************************************)
EXTENDS Integers, Sequences, FiniteSets, TLC

VARIABLES
    \* ---- NodeLEDController ----
    simulation_mode,   \* self.simulation_mode
    handle,            \* self.handle: "none" | "open" | "closed"
    current_states,    \* self.current_states: node -> BOOLEAN
    pin,               \* level last written successfully to each node's GPIO output
    writes,            \* gpio_write calls issued by the last call: <<node, state>>
    lastOp,            \* the last call: [op, arg, ok]
    prevUpdate         \* <<A>> if the call before the last one was an update(A)
                       \* that returned normally; NoUpdate otherwise

VARIABLES
    \* ---- LEDStripController ----
    strip_simulation_mode,  \* self.simulation_mode of the strip controller
    running,                \* self.running
    animation_thread,       \* self.animation_thread: <<>> (None) or <<t>>
    lock,                   \* self.lock: <<>> (free) or <<holder>>
    normal_active,          \* self.normal_active
    quantum_active,         \* self.quantum_active
    green_pos,              \* self.green_pos
    blue_pos,               \* self.blue_pos
    strip,                  \* the frame the strip hardware shows
    thr,                    \* the render threads: t -> [pc, normal, quantum, buffer]
    mpc,                    \* where the main thread is inside a controller call
    mloc,                   \* update_state's locals old_normal, old_quantum
    call,                   \* the main thread's current or last call
    replaced                \* inside update_state: the flag pair in place at the call

VARIABLES
    \* ---- Config, and the renderer taken alone ----
    config,                 \* self.config: [strip_led_count, strip_comet_length]
    tick,                   \* the last frame built: flag copies, counters before, buffer
    probe                   \* the last two _comet_brightness calls and their results

VARIABLES
    \* ---- SlurmLEDMonitor.run ----
    rpc,                    \* where run() is
    mon_running,            \* self.running of the monitor
    strip_enabled,          \* self.strip_controller is not None
    sinfo,                  \* what the subprocess of get_active_nodes came back with
    run_active_nodes,       \* run's local active_nodes
    squeue,                 \* what the subprocess of get_active_partitions came back with
    parts,                  \* run's locals (normal_active, quantum_active)
    rexc,                   \* an exception is propagating out of the try block
    rres                    \* how run() ended: "running", "returned", "raised"

VARIABLES
    \* ---- main()'s test mode ----
    tpc                     \* <<>>, or <<[at, res]>>: at set_node calls of test mode
                            \* have returned; res is "running", "done", "raised"

nodeVars == <<simulation_mode, handle, current_states, pin, writes, lastOp, prevUpdate>>

engineVars == <<strip_simulation_mode, running, animation_thread, lock, normal_active,
                quantum_active, green_pos, blue_pos, strip, thr>>

stripVars == <<engineVars, config, mpc, mloc, call, replaced>>

renderVars == <<tick, probe>>

monVars == <<rpc, mon_running, strip_enabled, sinfo, run_active_nodes, squeue, parts,
            rexc, rres>>

testVars == <<tpc>>

\* what neither controller's own calls touch
outerVars == <<renderVars, monVars, testVars>>

vars == <<nodeVars, stripVars, outerVars>>

-----------------------------------------------------------------------------
(* Bounds *)

\* number of entries of node_pins the controller is configured with
NumNodes == 3

\* Config.strip_led_count and Config.strip_comet_length of the modelled strip
strip_led_count == 2

strip_comet_length == 1

\* render threads that may exist at once (start() waits for a free slot)
MaxThreads == 2

\* the renderer taken alone: strips of 1..MaxLeds pixels, comets of
\* 1..MaxComet pixels (a comet may be longer than its strip)
MaxLeds == 3

MaxComet == 4

\* the nodes the cluster has, of those configured: sinfo prints a line for each
MaxReported == 2

\* the defaults of Config.strip_led_count and Config.strip_comet_length
DefaultLedCount == 60

DefaultCometLength == 10

-----------------------------------------------------------------------------
(* Configuration: Config.node_pins *)

\* the default node names, in dict order
NodeOrder == <<"c1", "c2", "c3", "c4", "q1", "q2">>

Min(a, b) == IF a < b THEN a ELSE b

\* the configured nodes, in iteration order of the dict
node_pins == SubSeq(NodeOrder, 1, Min(NumNodes, Len(NodeOrder)))

Configured == {node_pins[i] : i \in 1..Len(node_pins)}

\* node names a caller may pass: the configured ones and one that is not
NodeNames == Configured \cup {"x9"}

\* prevUpdate is <<A>> after an update(A) that returned, and otherwise:
NoUpdate == <<>>


\* active sets a caller may pass to update
ActiveSets == SUBSET NodeNames

\* failAt = k > 0: the k-th gpio_write of the call raises; 0: none raises
MaxWrites == 4 * Len(node_pins)

FailPoints == 0..MaxWrites

-----------------------------------------------------------------------------
(* NodeLEDController.  A call runs to its end in the caller's thread; its    *)
(* effect is computed on a record st = [cur, pin, writes, ok] and committed. *)
(* ok = FALSE: an exception is propagating, the rest of the call is skipped. *)

Entry == [cur |-> current_states, pin |-> pin, writes |-> <<>>, ok |-> TRUE]

\* lgpio.gpio_write(self.handle, pin, 1 if state else 0)
gpio_write(st, node, state, failAt) ==
    LET w == Append(st.writes, <<node, state>>) IN
    IF handle # "open" \/ Len(w) = failAt
    THEN [st EXCEPT !.writes = w, !.ok = FALSE]
    ELSE [st EXCEPT !.writes = w, !.pin[node] = state]

\* the same call with the bookkeeping assignment left out
set_node_norecord(st, node, state, failAt) ==
    IF ~st.ok THEN st
    ELSE IF node \notin Configured THEN st
    ELSE IF st.cur[node] = state THEN st
    ELSE IF simulation_mode THEN st
    ELSE gpio_write(st, node, state, failAt)

\* the same call with simulation mode returning before the bookkeeping
set_node_simskip(st, node, state, failAt) ==
    IF ~st.ok THEN st
    ELSE IF node \notin Configured THEN st
    ELSE IF st.cur[node] = state THEN st
    ELSE IF simulation_mode THEN st
    ELSE gpio_write([st EXCEPT !.cur[node] = state], node, state, failAt)

\* NodeLEDController.set_node
set_node(st, node, state, failAt) ==
    IF ~st.ok THEN st
    ELSE IF node \notin Configured THEN st
    ELSE IF st.cur[node] = state THEN st
    ELSE LET rec == [st EXCEPT !.cur[node] = state] IN
         IF simulation_mode THEN rec
         ELSE gpio_write(rec, node, state, failAt)

\* a sequence of set_node calls: steps[i] = <<node, state>>
RECURSIVE set_nodes(_, _, _)
set_nodes(st, steps, failAt) ==
    IF steps = <<>> THEN st
    ELSE set_nodes(set_node(st, Head(steps)[1], Head(steps)[2], failAt),
                   Tail(steps), failAt)

\* the body of update's for loop, from node_pins[i] on
RECURSIVE update_loop(_, _, _, _)
update_loop(st, i, active_nodes, failAt) ==
    IF i > Len(node_pins) \/ ~st.ok THEN st
    ELSE LET node == node_pins[i]
             new_state == node \in active_nodes
             nxt == IF new_state # st.cur[node]
                    THEN set_node(st, node, new_state, failAt)
                    ELSE st
         IN update_loop(nxt, i + 1, active_nodes, failAt)

\* NodeLEDController.update
update(st, active_nodes, failAt) == update_loop(st, 1, active_nodes, failAt)

\* NodeLEDController.all_on
all_on(st, failAt) ==
    set_nodes(st, [i \in 1..Len(node_pins) |-> <<node_pins[i], TRUE>>], failAt)

\* NodeLEDController.all_off
all_off(st, failAt) ==
    set_nodes(st, [i \in 1..Len(node_pins) |-> <<node_pins[i], FALSE>>], failAt)

\* the order test_sequence lights the indicators in, and its reverse
TestOrder == <<"c1", "c2", "c3", "c4", "q1", "q2">>

\* the indicators switched off in the order they were lit
TestReverse_forward == <<"c1", "c2", "c3", "c4", "q1", "q2">>

TestReverse == <<"q2", "q1", "c4", "c3", "c2", "c1">>

\* NodeLEDController.test_sequence
test_sequence(st, failAt) ==
    LET up    == set_nodes(st, [i \in 1..Len(TestOrder) |-> <<TestOrder[i], TRUE>>], failAt)
        down  == set_nodes(up, [i \in 1..Len(TestReverse) |-> <<TestReverse[i], FALSE>>], failAt)
        flash1 == all_off(all_on(down, failAt), failAt)
    IN  all_off(all_on(flash1, failAt), failAt)

\* what a call leaves behind in the controller
Leave(st, op, arg) ==
    /\ current_states' = st.cur
    /\ pin' = st.pin
    /\ writes' = st.writes
    /\ lastOp' = [op |-> op, arg |-> arg, ok |-> st.ok]
    /\ prevUpdate' = IF lastOp.op = "update" /\ lastOp.ok THEN <<lastOp.arg>> ELSE NoUpdate

\* a call made on the controller alone
Commit(st, op, arg) ==
    /\ Leave(st, op, arg)
    /\ UNCHANGED <<stripVars, outerVars>>

SetNode ==
    \E node \in NodeNames, state \in BOOLEAN, failAt \in 0..1 :
        /\ Commit(set_node(Entry, node, state, failAt), "set_node", {})
        /\ UNCHANGED <<simulation_mode, handle>>

Update ==
    \E active_nodes \in ActiveSets, failAt \in 0..Len(node_pins) :
        /\ Commit(update(Entry, active_nodes, failAt), "update", active_nodes)
        /\ UNCHANGED <<simulation_mode, handle>>

AllOn ==
    \E failAt \in 0..Len(node_pins) :
        /\ Commit(all_on(Entry, failAt), "all_on", {})
        /\ UNCHANGED <<simulation_mode, handle>>

AllOff ==
    \E failAt \in 0..Len(node_pins) :
        /\ Commit(all_off(Entry, failAt), "all_off", {})
        /\ UNCHANGED <<simulation_mode, handle>>

TestSequence ==
    \E failAt \in FailPoints :
        /\ Commit(test_sequence(Entry, failAt), "test_sequence", {})
        /\ UNCHANGED <<simulation_mode, handle>>

\* NodeLEDController.cleanup
Cleanup ==
    \E failAt \in 0..Len(node_pins) :
        LET st == all_off(Entry, failAt) IN
        /\ Commit(st, "cleanup", {})
        /\ handle' = IF st.ok /\ handle = "open" /\ ~simulation_mode
                     THEN "closed" ELSE handle
        /\ UNCHANGED simulation_mode

\* NodeLEDController.__init__: simulate or GPIO unavailable (simulation, no
\* handle), GPIO claimed (every output written 0), or a claim or write that
\* raised after gpiochip_open (simulation, the handle left open)
NodeInit ==
    /\ \/ simulation_mode = TRUE  /\ handle = "none"
       \/ simulation_mode = FALSE /\ handle = "open"
       \/ simulation_mode = TRUE  /\ handle = "open"
    /\ current_states = [n \in Configured |-> FALSE]
    /\ pin = [n \in Configured |-> FALSE]
    /\ writes = <<>>
    /\ lastOp = [op |-> "init", arg |-> {}, ok |-> TRUE]
    /\ prevUpdate = NoUpdate

-----------------------------------------------------------------------------
(* main()'s test mode: a NodeLEDController is built, test_sequence() runs,   *)
(* then cleanup().  Each set_node call the two methods make is one step;     *)
(* tpc[1].at counts the calls that returned.                                 *)

NoTest == <<>>

\* all_on() and all_off() as the set_node calls they make
AllOnSteps == [i \in 1..Len(node_pins) |-> <<node_pins[i], TRUE>>]

AllOffSteps == [i \in 1..Len(node_pins) |-> <<node_pins[i], FALSE>>]

\* the set_node calls of test_sequence(), in order: every indicator on, every
\* indicator off in reverse, then all_on() and all_off(), twice
TestSteps ==
    [i \in 1..Len(TestOrder) |-> <<TestOrder[i], TRUE>>]
    \o [i \in 1..Len(TestReverse) |-> <<TestReverse[i], FALSE>>]
    \o AllOnSteps \o AllOffSteps \o AllOnSteps \o AllOffSteps

\* the set_node calls of test mode: test_sequence(), then cleanup()'s all_off()
TestModeSteps == TestSteps \o AllOffSteps

\* the next set_node call of test mode; a gpio_write that raises ends main()
TestStep ==
    /\ tpc # NoTest
    /\ tpc[1].res = "running"
    /\ tpc[1].at < Len(TestModeSteps)
    /\ \E failAt \in 0..1 :
          LET step == TestModeSteps[tpc[1].at + 1]
              st == set_node(Entry, step[1], step[2], failAt)
          IN /\ Leave(st, "set_node", {})
             /\ tpc' = <<[at |-> tpc[1].at + 1,
                          res |-> IF st.ok THEN "running" ELSE "raised"]>>
    /\ UNCHANGED <<simulation_mode, handle, stripVars, renderVars, monVars>>

\* the end of cleanup(): lgpio.gpiochip_close(self.handle) on hardware
TestClose ==
    /\ tpc # NoTest
    /\ tpc[1].res = "running"
    /\ tpc[1].at = Len(TestModeSteps)
    /\ handle' = IF handle = "open" /\ ~simulation_mode THEN "closed" ELSE handle
    /\ tpc' = <<[at |-> tpc[1].at, res |-> "done"]>>
    /\ UNCHANGED <<simulation_mode, current_states, pin, writes, lastOp, prevUpdate>>
    /\ UNCHANGED <<stripVars, renderVars, monVars>>

\* test mode not run
TestUnused == tpc = NoTest

-----------------------------------------------------------------------------
(* LEDStripController: colours and the comet renderer *)

GREEN == <<0, 255, 0>>

BLUE == <<0, 0, 255>>

OFF == <<0, 0, 0>>

Pixels == 0..(config.strip_led_count - 1)

\* [self.OFF] * num_leds, and pixels.fill(self.OFF)
OffFrame == [i \in Pixels |-> OFF]

\* the channel sums with no cap
blend_colors_nocap(color1, color2) ==
    << color1[1] + color2[1], color1[2] + color2[2], color1[3] + color2[3] >>

\* LEDStripController._blend_colors
blend_colors(color1, color2) ==
    << Min(255, color1[1] + color2[1]),
       Min(255, color1[2] + color2[2]),
       Min(255, color1[3] + color2[3]) >>

\* the falloff with no test of the distance against the comet
comet_brightness_noguard(distance, length) ==
    <<(length - distance) * (length - distance), length * length>>

\* a falloff that is linear in the distance
comet_brightness_linear(distance, length) ==
    IF distance < 0 \/ distance >= length
    THEN <<0, 1>>
    ELSE <<length - distance, length>>

\* LEDStripController._comet_brightness, as the fraction <<numerator, denominator>>
\* of (1.0 - distance / length) ** 2
comet_brightness(distance, length) ==
    IF distance < 0 \/ distance >= length
    THEN <<0, 1>>
    ELSE <<(length - distance) * (length - distance), length * length>>

\* the product rounded up
scale_up(channel, brightness) ==
    (channel * brightness[1] + brightness[2] - 1) \div brightness[2]

\* int(color[k] * brightness)
scale(channel, brightness) == (channel * brightness[1]) \div brightness[2]

\* the for loop of _render_comet, from tail offset i on
RECURSIVE render_comet_loop(_, _, _, _)
render_comet_loop(i, position, color, buffer) ==
    IF i >= config.strip_comet_length THEN buffer
    ELSE LET led_pos == (position - i) % config.strip_led_count
             brightness == comet_brightness(i, config.strip_comet_length)
             scaled_color == << scale(color[1], brightness),
                                scale(color[2], brightness),
                                scale(color[3], brightness) >>
         IN render_comet_loop(i + 1, position, color,
                [buffer EXCEPT ![led_pos] = blend_colors(buffer[led_pos], scaled_color)])

\* the comet drawn from its last tail pixel: the head lands length - 1 further
render_comet_shifted(position, color, buffer) ==
    render_comet_loop(0, position + config.strip_comet_length - 1, color, buffer)

\* LEDStripController._render_comet
render_comet(position, color, buffer) == render_comet_loop(0, position, color, buffer)

\* the dual frame with the blue comet drawn on a fresh buffer, the green one lost
render_frame_overwrite(normal, quantum, gpos, bpos) ==
    IF quantum THEN render_comet(IF normal THEN config.strip_led_count - 1 - bpos ELSE bpos,
                                 BLUE, OffFrame)
    ELSE IF normal THEN render_comet(gpos, GREEN, OffFrame)
    ELSE OffFrame

\* both comets drawn whenever either flag is set
render_frame_both(normal, quantum, gpos, bpos) ==
    IF normal \/ quantum
    THEN render_comet(bpos, BLUE, render_comet(gpos, GREEN, OffFrame))
    ELSE OffFrame

\* the frame one iteration of _animation_loop builds from its flag copies
render_frame(normal, quantum, gpos, bpos) ==
    IF normal /\ quantum
    THEN render_comet(config.strip_led_count - 1 - bpos, BLUE,
                      render_comet(gpos, GREEN, OffFrame))
    ELSE IF normal THEN render_comet(gpos, GREEN, OffFrame)
    ELSE IF quantum THEN render_comet(bpos, BLUE, OffFrame)
    ELSE OffFrame

\* a counter that stays where it is
advance_stay(pos) == pos % config.strip_led_count

\* a counter that counts on past the end of the strip
advance_nowrap(pos) == pos + 1

\* self.green_pos = (self.green_pos + 1) % num_leds, and the same for blue_pos
advance(pos) == (pos + 1) % config.strip_led_count

-----------------------------------------------------------------------------
(* The renderer taken alone: frames built one after the other from any flag  *)
(* copies, and _comet_brightness called with any distance.                   *)

NoTick == <<>>

NoProbe == <<>>

\* the configurations rendered: every small strip and comet, and the default
RenderConfigs ==
    {[strip_led_count |-> n, strip_comet_length |-> l] : n \in 1..MaxLeds, l \in 1..MaxComet}
    \cup {[strip_led_count |-> DefaultLedCount, strip_comet_length |-> DefaultCometLength]}

\* distances passed to _comet_brightness: inside the comet, before and beyond it
Distances == (0 - 2)..(MaxComet + 2)

\* one iteration of _animation_loop between its flag copy and its strip write:
\* the frame is built from the copies (normal, quantum) and the counters, and
\* the counters of the comets drawn advance
RenderTick ==
    \E normal \in BOOLEAN, quantum \in BOOLEAN :
        /\ tick' = <<[normal |-> normal, quantum |-> quantum,
                      green_pos |-> green_pos, blue_pos |-> blue_pos,
                      buffer |-> render_frame(normal, quantum, green_pos, blue_pos)]>>
        /\ green_pos' = IF normal THEN advance(green_pos) ELSE green_pos
        /\ blue_pos' = IF quantum THEN advance(blue_pos) ELSE blue_pos
        /\ UNCHANGED <<strip_simulation_mode, running, animation_thread, lock,
                       normal_active, quantum_active, strip, thr>>
        /\ UNCHANGED <<config, mpc, mloc, call, replaced, probe, nodeVars, monVars,
                       testVars>>

\* brightness = self._comet_brightness(distance, length), with
\* length = self.config.strip_comet_length; probe keeps this call and the one before
ProbeBrightness ==
    \E distance \in Distances :
        LET e == [distance |-> distance,
                  brightness |-> comet_brightness(distance, config.strip_comet_length)]
        IN /\ probe' = IF probe = NoProbe THEN <<e>> ELSE <<e, probe[1]>>
           /\ UNCHANGED <<engineVars, config, mpc, mloc, call, replaced, tick, nodeVars,
                          monVars, testVars>>

-----------------------------------------------------------------------------
(* LEDStripController: the render thread (_animation_loop).  A thread t is   *)
(* at one of: "none" (no such thread), "check" (while self.running),         *)
(* "acquire" (with self.lock), "read_q" (inside the with block, normal       *)
(* copied), "frame" (the branch that builds the frame), "show" (inside the   *)
(* strip write), "sleep" (time.sleep), "done" (the thread has ended).        *)

\* the thread that calls start, stop and update_state
MainThread == 0

Threads == 1..MaxThreads

NoThread == [pc |-> "none", normal |-> FALSE, quantum |-> FALSE, buffer |-> OffFrame]

\* a thread at pc whose locals hold nothing that is read again
At(pc) == [pc |-> pc, normal |-> FALSE, quantum |-> FALSE, buffer |-> OffFrame]

Live(t) == thr[t].pc \notin {"none", "done"}

MainVarsUnchanged == UNCHANGED <<mpc, mloc, call, replaced>>

\* while self.running: (on entry to the loop)
Check(t) ==
    /\ thr[t].pc = "check"
    /\ thr' = [thr EXCEPT ![t] = At(IF running THEN "acquire" ELSE "done")]
    /\ UNCHANGED <<strip_simulation_mode, running, animation_thread, lock, normal_active,
                   quantum_active, green_pos, blue_pos, strip>>
    /\ MainVarsUnchanged /\ UNCHANGED <<nodeVars, config, outerVars>>

\* the flags read with no lock taken
Acquire_nolock(t) ==
    /\ thr[t].pc = "acquire"
    /\ thr' = [thr EXCEPT ![t] = [At("read_q") EXCEPT !.normal = normal_active]]
    /\ UNCHANGED <<strip_simulation_mode, running, animation_thread, lock, normal_active,
                   quantum_active, green_pos, blue_pos, strip>>
    /\ MainVarsUnchanged /\ UNCHANGED <<nodeVars, config, outerVars>>

\* with self.lock: normal = self.normal_active
Acquire(t) ==
    /\ thr[t].pc = "acquire"
    /\ lock = <<>>
    /\ lock' = <<t>>
    /\ thr' = [thr EXCEPT ![t] = [At("read_q") EXCEPT !.normal = normal_active]]
    /\ UNCHANGED <<strip_simulation_mode, running, animation_thread, normal_active,
                   quantum_active, green_pos, blue_pos, strip>>
    /\ MainVarsUnchanged /\ UNCHANGED <<nodeVars, config, outerVars>>

\* the second copy with the with block not left: the lock stays held
ReadQuantum_keeplock(t) ==
    /\ thr[t].pc = "read_q"
    /\ thr' = [thr EXCEPT ![t] = [At("frame") EXCEPT !.normal = thr[t].normal,
                                                     !.quantum = quantum_active]]
    /\ UNCHANGED <<strip_simulation_mode, running, animation_thread, lock, normal_active,
                   quantum_active, green_pos, blue_pos, strip>>
    /\ MainVarsUnchanged /\ UNCHANGED <<nodeVars, config, outerVars>>

\* the second copy never taken: quantum stays False
ReadQuantum_stale(t) ==
    /\ thr[t].pc = "read_q"
    /\ thr' = [thr EXCEPT ![t] = [At("frame") EXCEPT !.normal = thr[t].normal]]
    /\ lock' = IF lock = <<t>> THEN <<>> ELSE lock
    /\ UNCHANGED <<strip_simulation_mode, running, animation_thread, normal_active,
                   quantum_active, green_pos, blue_pos, strip>>
    /\ MainVarsUnchanged /\ UNCHANGED <<nodeVars, config, outerVars>>

\* quantum = self.quantum_active, and the end of the with block, which
\* releases the lock this thread took
ReadQuantum(t) ==
    /\ thr[t].pc = "read_q"
    /\ thr' = [thr EXCEPT ![t] = [At("frame") EXCEPT !.normal = thr[t].normal,
                                                     !.quantum = quantum_active]]
    /\ lock' = IF lock = <<t>> THEN <<>> ELSE lock
    /\ UNCHANGED <<strip_simulation_mode, running, animation_thread, normal_active,
                   quantum_active, green_pos, blue_pos, strip>>
    /\ MainVarsUnchanged /\ UNCHANGED <<nodeVars, config, outerVars>>

\* the same branch reading self.normal_active and self.quantum_active again
\* in place of the copies
Frame_liveflags(t) ==
    /\ thr[t].pc = "frame"
    /\ LET normal == normal_active
           quantum == quantum_active
           buffer == render_frame(normal, quantum, green_pos, blue_pos)
       IN /\ green_pos' = IF normal THEN advance(green_pos) ELSE green_pos
          /\ blue_pos' = IF quantum THEN advance(blue_pos) ELSE blue_pos
          /\ thr' = [thr EXCEPT ![t] =
                        IF strip_simulation_mode THEN At("sleep")
                        ELSE [At("show") EXCEPT !.buffer = buffer]]
    /\ UNCHANGED <<strip_simulation_mode, running, animation_thread, lock, normal_active,
                   quantum_active, strip>>
    /\ MainVarsUnchanged /\ UNCHANGED <<nodeVars, config, outerVars>>

\* the same branch with the no-activity case going straight to its sleep: the
\* strip is not written
Frame_idleskip(t) ==
    /\ thr[t].pc = "frame"
    /\ LET normal == thr[t].normal
           quantum == thr[t].quantum
           buffer == render_frame(normal, quantum, green_pos, blue_pos)
       IN /\ green_pos' = IF normal THEN advance(green_pos) ELSE green_pos
          /\ blue_pos' = IF quantum THEN advance(blue_pos) ELSE blue_pos
          /\ thr' = [thr EXCEPT ![t] =
                        IF strip_simulation_mode \/ (~normal /\ ~quantum) THEN At("sleep")
                        ELSE [At("show") EXCEPT !.buffer = buffer]]
    /\ UNCHANGED <<strip_simulation_mode, running, animation_thread, lock, normal_active,
                   quantum_active, strip>>
    /\ MainVarsUnchanged /\ UNCHANGED <<nodeVars, config, outerVars>>

\* the branch on the copies: the frame is built and the counters advance; the
\* thread goes on to the strip write, or straight to its sleep in simulation
Frame(t) ==
    /\ thr[t].pc = "frame"
    /\ LET normal == thr[t].normal
           quantum == thr[t].quantum
           buffer == render_frame(normal, quantum, green_pos, blue_pos)
       IN /\ green_pos' = IF normal THEN advance(green_pos) ELSE green_pos
          /\ blue_pos' = IF quantum THEN advance(blue_pos) ELSE blue_pos
          /\ thr' = [thr EXCEPT ![t] =
                        IF strip_simulation_mode THEN At("sleep")
                        ELSE [At("show") EXCEPT !.buffer = buffer]]
    /\ UNCHANGED <<strip_simulation_mode, running, animation_thread, lock, normal_active,
                   quantum_active, strip>>
    /\ MainVarsUnchanged /\ UNCHANGED <<nodeVars, config, outerVars>>

\* self.pixels[i] = color for every i, self.pixels.show(): the write completes
Show(t) ==
    /\ thr[t].pc = "show"
    /\ strip' = thr[t].buffer
    /\ thr' = [thr EXCEPT ![t] = At("sleep")]
    /\ UNCHANGED <<strip_simulation_mode, running, animation_thread, lock, normal_active,
                   quantum_active, green_pos, blue_pos>>
    /\ MainVarsUnchanged /\ UNCHANGED <<nodeVars, config, outerVars>>

\* the strip write raises: nothing in _animation_loop catches it, the thread ends
ShowRaises(t) ==
    /\ thr[t].pc = "show"
    /\ thr' = [thr EXCEPT ![t] = At("done")]
    /\ UNCHANGED <<strip_simulation_mode, running, animation_thread, lock, normal_active,
                   quantum_active, green_pos, blue_pos, strip>>
    /\ MainVarsUnchanged /\ UNCHANGED <<nodeVars, config, outerVars>>

\* time.sleep(0.1) or time.sleep(strip_comet_speed) is over, and the loop
\* condition while self.running is evaluated again
Wake(t) ==
    /\ thr[t].pc = "sleep"
    /\ thr' = [thr EXCEPT ![t] = At(IF running THEN "acquire" ELSE "done")]
    /\ UNCHANGED <<strip_simulation_mode, running, animation_thread, lock, normal_active,
                   quantum_active, green_pos, blue_pos, strip>>
    /\ MainVarsUnchanged /\ UNCHANGED <<nodeVars, config, outerVars>>

\* LEDStripController._animation_loop
animation_loop(t) ==
    \/ Check(t) \/ Acquire(t) \/ ReadQuantum(t)
    \/ Frame(t) \/ Show(t) \/ ShowRaises(t) \/ Wake(t)

-----------------------------------------------------------------------------
(* LEDStripController: the calls of the main thread.  mpc is "idle" between  *)
(* calls, "us_acquire" and "us_wq" inside update_state, "stop_join" and      *)
(* "stop_write" inside stop.  call describes the current or last call:       *)
(*   op, n, q   the method and update_state's arguments                      *)
(*   res        "run", "ok", "noop" (start found running set), "raised"      *)
(*   log        log lines update_state emitted                               *)
(*   timedOut   stop's join timed out                                        *)
(*   midSleep   stop was called while the joined thread was in its sleep     *)

Call(op, n, q, res) ==
    [op |-> op, n |-> n, q |-> q, res |-> res, log |-> 0,
     timedOut |-> FALSE, midSleep |-> FALSE]

NoLocals == [old_normal |-> FALSE, old_quantum |-> FALSE]

NoPair == <<FALSE, FALSE>>

\* the slot a new thread gets: the lowest one with no live thread in it
FreeSlots == {t \in Threads : ~Live(t)}

NewThread == CHOOSE t \in FreeSlots : \A u \in FreeSlots : t <= u

\* the same call without the test of self.running
Start_nocheck ==
    /\ mpc = "idle"
    /\ FreeSlots # {}
    /\ running' = TRUE
    /\ animation_thread' = <<NewThread>>
    /\ thr' = [thr EXCEPT ![NewThread] = At("check")]
    /\ call' = Call("start", FALSE, FALSE, "ok")
    /\ UNCHANGED <<strip_simulation_mode, lock, normal_active, quantum_active,
                   green_pos, blue_pos, strip>>
    /\ UNCHANGED <<mpc, mloc, replaced>>
    /\ UNCHANGED <<nodeVars, config, outerVars>>

\* LEDStripController.start
Start ==
    /\ mpc = "idle"
    /\ IF running
       THEN /\ call' = Call("start", FALSE, FALSE, "noop")
            /\ UNCHANGED <<running, animation_thread, thr>>
       ELSE /\ FreeSlots # {}
            /\ running' = TRUE
            /\ animation_thread' = <<NewThread>>
            /\ thr' = [thr EXCEPT ![NewThread] = At("check")]
            /\ call' = Call("start", FALSE, FALSE, "ok")
    /\ UNCHANGED <<strip_simulation_mode, lock, normal_active, quantum_active,
                   green_pos, blue_pos, strip>>
    /\ UNCHANGED <<mpc, mloc, replaced>>
    /\ UNCHANGED <<nodeVars, config, outerVars>>

\* update_state(normal_active, quantum_active) is called
UpdateStateCall ==
    /\ mpc = "idle"
    /\ \E n \in BOOLEAN, q \in BOOLEAN : call' = Call("update_state", n, q, "run")
    /\ replaced' = <<normal_active, quantum_active>>
    /\ mpc' = "us_acquire"
    /\ UNCHANGED <<engineVars, mloc>>
    /\ UNCHANGED <<nodeVars, config, outerVars>>

\* with self.lock: old_normal = self.normal_active;
\* old_quantum = self.quantum_active; self.normal_active = normal_active
UpdateStateAcquire ==
    /\ mpc = "us_acquire"
    /\ lock = <<>>
    /\ lock' = <<MainThread>>
    /\ mloc' = [old_normal |-> normal_active, old_quantum |-> quantum_active]
    /\ normal_active' = call.n
    /\ mpc' = "us_wq"
    /\ UNCHANGED <<strip_simulation_mode, running, animation_thread,
                   quantum_active, green_pos, blue_pos, strip, thr>>
    /\ UNCHANGED <<call, replaced>>
    /\ UNCHANGED <<nodeVars, config, outerVars>>

\* the change test with "and" in place of "or"
changed_and(n, q, old_normal, old_quantum) == (n # old_normal) /\ (q # old_quantum)

\* (normal_active != old_normal) or (quantum_active != old_quantum)
changed(n, q, old_normal, old_quantum) == (n # old_normal) \/ (q # old_quantum)

\* self.quantum_active = quantum_active and the end of the with block; then
\* the change test, one logging.info line if it holds, and the return
UpdateStateFinish ==
    /\ mpc = "us_wq"
    /\ quantum_active' = call.q
    /\ lock' = IF lock = <<MainThread>> THEN <<>> ELSE lock
    /\ call' = [call EXCEPT
                  !.res = "ok",
                  !.log = IF changed(call.n, call.q, mloc.old_normal, mloc.old_quantum)
                          THEN 1 ELSE 0]
    /\ mloc' = NoLocals
    /\ replaced' = NoPair
    /\ mpc' = "idle"
    /\ UNCHANGED <<strip_simulation_mode, running, animation_thread,
                   normal_active, green_pos, blue_pos, strip, thr>>
    /\ UNCHANGED <<nodeVars, config, outerVars>>

\* stop() is called: self.running = False
StopCall ==
    /\ mpc = "idle"
    /\ running' = FALSE
    /\ call' = [Call("stop", FALSE, FALSE, "run") EXCEPT
                  !.midSleep = IF animation_thread = <<>> THEN FALSE
                               ELSE thr[animation_thread[1]].pc = "sleep"]
    /\ mpc' = "stop_join"
    /\ UNCHANGED <<strip_simulation_mode, animation_thread, lock, normal_active,
                   quantum_active, green_pos, blue_pos, strip, thr>>
    /\ UNCHANGED <<mloc, replaced>>
    /\ UNCHANGED <<nodeVars, config, outerVars>>

\* join(timeout=1.0) returning at once, whatever the thread is doing
StopJoin_nowait ==
    /\ mpc = "stop_join"
    /\ mpc' = "stop_write"
    /\ UNCHANGED <<engineVars, mloc, call, replaced>>
    /\ UNCHANGED <<nodeVars, config, outerVars>>

\* if self.animation_thread: self.animation_thread.join(timeout=1.0): there is
\* no thread, or the thread has ended
StopJoin ==
    /\ mpc = "stop_join"
    /\ IF animation_thread = <<>> THEN TRUE ELSE ~Live(animation_thread[1])
    /\ mpc' = "stop_write"
    /\ UNCHANGED <<engineVars, mloc, call, replaced>>
    /\ UNCHANGED <<nodeVars, config, outerVars>>

\* the join times out.  The loop's sleeps last 0.1 s and strip_comet_speed
\* (0.03 s) and its other steps do not block, so the 1.0 s can only pass while
\* the thread is inside the strip write, the one step with no time bound.
StopJoinTimeout ==
    /\ mpc = "stop_join"
    /\ animation_thread # <<>>
    /\ thr[animation_thread[1]].pc = "show"
    /\ call' = [call EXCEPT !.timedOut = TRUE]
    /\ mpc' = "stop_write"
    /\ UNCHANGED <<engineVars, mloc, replaced>>
    /\ UNCHANGED <<nodeVars, config, outerVars>>

\* stop() returning without the final frame
StopWrite_nowrite ==
    /\ mpc = "stop_write"
    /\ call' = [call EXCEPT !.res = "ok"]
    /\ mpc' = "idle"
    /\ UNCHANGED <<engineVars, mloc, replaced>>
    /\ UNCHANGED <<nodeVars, config, outerVars>>

\* if not self.simulation_mode and self.pixels: fill(OFF), show(), which may
\* raise; the return
StopWrite ==
    /\ mpc = "stop_write"
    /\ \/ /\ strip' = IF strip_simulation_mode THEN strip ELSE OffFrame
          /\ call' = [call EXCEPT !.res = "ok"]
       \/ /\ ~strip_simulation_mode
          /\ UNCHANGED strip
          /\ call' = [call EXCEPT !.res = "raised"]
    /\ mpc' = "idle"
    /\ UNCHANGED <<strip_simulation_mode, running, animation_thread, lock, normal_active,
                   quantum_active, green_pos, blue_pos, thr>>
    /\ UNCHANGED <<mloc, replaced>>
    /\ UNCHANGED <<nodeVars, config, outerVars>>

\* LEDStripController.update_state
update_state == UpdateStateCall \/ UpdateStateAcquire \/ UpdateStateFinish

\* LEDStripController.stop
stop == StopCall \/ StopJoin \/ StopJoinTimeout \/ StopWrite

\* LEDStripController.__init__: simulation, or the strip claimed and cleared
StripInit ==
    /\ config = [strip_led_count |-> strip_led_count,
                 strip_comet_length |-> strip_comet_length]
    /\ strip_simulation_mode \in BOOLEAN
    /\ running = FALSE
    /\ animation_thread = <<>>
    /\ lock = <<>>
    /\ normal_active = FALSE
    /\ quantum_active = FALSE
    /\ green_pos = 0
    /\ blue_pos = 0
    /\ strip = OffFrame
    /\ thr = [t \in Threads |-> NoThread]
    /\ mpc = "idle"
    /\ mloc = NoLocals
    /\ call = Call("init", FALSE, FALSE, "ok")
    /\ replaced = NoPair

\* the strip controller as constructed with simulate = True, never used
StripUnused == StripInit /\ strip_simulation_mode = TRUE

\* no frame built and no brightness computed outside the engine
RenderUnused == tick = NoTick /\ probe = NoProbe

\* the node controller as constructed with simulate = True, never used
NodeUnused == NodeInit /\ simulation_mode = TRUE /\ handle = "none"

-----------------------------------------------------------------------------
(* SlurmNodeMonitor: the two scheduler queries.  A query runs one subprocess *)
(* (ssh ... sinfo / squeue) that has ended, or was killed on the timeout,    *)
(* when subprocess.run returns or raises; what it came back with is          *)
(*   outcome  "ok" (return code 0), "rc" (non-zero return code),             *)
(*            "timeout" (subprocess.TimeoutExpired), "error" (any other      *)
(*            exception)                                                     *)
(*   stdout   the output, read only when outcome = "ok"                      *)

NoQuery == [outcome |-> "none", stdout |-> <<>>]

QueryFailures == {"rc", "timeout", "error"}

\* the state column of sinfo -N -h -o "%N %T", one word per configured node
NodeStateWords == {"idle", "MIXED", "down*", "draining"}

\* str.lower on those words
Lower(word) == IF word = "MIXED" THEN "mixed" ELSE IF word = "QUANTUM" THEN "quantum" ELSE word

\* the words of {'idle', 'down', 'drain'} that occur in a lower-case state
WordsIn(state) ==
    IF state = "idle" THEN {"idle"}
    ELSE IF state = "down*" THEN {"down"}
    ELSE IF state = "draining" THEN {"drain"}
    ELSE {}

\* the nodes sinfo prints a line for
Reported == {node_pins[i] : i \in 1..Min(MaxReported, Len(node_pins))}

\* what the sinfo subprocess may come back with
SinfoResults ==
    {[outcome |-> "ok", stdout |-> out] : out \in [Reported -> NodeStateWords]}
    \cup {[outcome |-> f, stdout |-> <<>>] : f \in QueryFailures}

\* SlurmNodeMonitor.get_active_nodes
get_active_nodes(result) ==
    IF result.outcome # "ok" THEN {}
    ELSE {node \in DOMAIN result.stdout : WordsIn(Lower(result.stdout[node])) = {}}

\* the lines of squeue -h -t RUNNING -o "%P", as a set
PartitionWords == {"normal", "QUANTUM", "debug"}

\* what the squeue subprocess may come back with
SqueueResults ==
    {[outcome |-> "ok", stdout |-> out] : out \in SUBSET PartitionWords}
    \cup {[outcome |-> f, stdout |-> {}] : f \in QueryFailures}

\* a failing query answered with the partitions of the last line
get_active_partitions_stale(result) ==
    IF result.outcome # "ok" THEN <<TRUE, FALSE>>
    ELSE LET partitions == {Lower(line) : line \in result.stdout}
         IN <<"normal" \in partitions, "quantum" \in partitions>>

\* SlurmNodeMonitor.get_active_partitions
get_active_partitions(result) ==
    IF result.outcome # "ok" THEN <<FALSE, FALSE>>
    ELSE LET partitions == {Lower(line) : line \in result.stdout}
         IN <<"normal" \in partitions, "quantum" \in partitions>>

-----------------------------------------------------------------------------
(* SlurmLEDMonitor.run, in the main thread.  rpc is the statement run() is   *)
(* at: "test" (test_sequence), "start" (strip start), "check" (while         *)
(* self.running), "q_nodes", "u_nodes", "q_parts", "u_strip", "sleep" (the   *)
(* five statements of one poll iteration), "strip_cleanup" and "led_cleanup" *)
(* (the finally block), "exit".  The calls on the strip controller are taken *)
(* as the caller sees them, each as one step; its render thread is not       *)
(* followed here, stop()'s join ends with the thread gone or on its timeout. *)

Iteration == {"q_nodes", "u_nodes", "q_parts", "u_strip", "sleep"}

Monitoring == Iteration \cup {"check"}

\* the first statement of the finally block
Finally == IF strip_enabled THEN "strip_cleanup" ELSE "led_cleanup"

NodeFixed == UNCHANGED <<simulation_mode, handle>>

StripFixed == UNCHANGED <<engineVars, config, mpc, mloc, call, replaced>>

QueriesFixed == UNCHANGED <<sinfo, run_active_nodes, squeue, parts>>

\* self.led_controller.test_sequence(), before the try block
MonTest ==
    /\ rpc = "test"
    /\ \E failAt \in FailPoints :
          LET st == test_sequence(Entry, failAt) IN
          /\ Leave(st, "test_sequence", {})
          /\ rpc' = IF st.ok THEN "start" ELSE "exit"
          /\ rres' = IF st.ok THEN rres ELSE "raised"
    /\ NodeFixed /\ StripFixed /\ QueriesFixed
    /\ UNCHANGED <<mon_running, strip_enabled, rexc, renderVars, testVars>>

\* if self.strip_controller: self.strip_controller.start(), before the try
\* block; Thread.start() may raise
MonStart ==
    /\ rpc = "start"
    /\ \/ /\ ~strip_enabled
          /\ rpc' = "check"
          /\ UNCHANGED <<running, animation_thread, thr, call, rres>>
       \/ /\ strip_enabled
          /\ running' = TRUE
          /\ animation_thread' = <<NewThread>>
          /\ \/ /\ thr' = [thr EXCEPT ![NewThread] = At("check")]
                /\ call' = Call("start", FALSE, FALSE, "ok")
                /\ rpc' = "check"
                /\ UNCHANGED rres
             \/ /\ call' = Call("start", FALSE, FALSE, "raised")
                /\ rpc' = "exit"
                /\ rres' = "raised"
                /\ UNCHANGED thr
    /\ UNCHANGED <<strip_simulation_mode, lock, normal_active, quantum_active,
                   green_pos, blue_pos, strip, config, mpc, mloc, replaced>>
    /\ QueriesFixed
    /\ UNCHANGED <<mon_running, strip_enabled, rexc, renderVars, testVars, nodeVars>>

\* while self.running:
MonCheck ==
    /\ rpc = "check"
    /\ rpc' = IF mon_running THEN "q_nodes" ELSE Finally
    /\ StripFixed /\ QueriesFixed
    /\ UNCHANGED <<mon_running, strip_enabled, rexc, rres, renderVars, testVars, nodeVars>>

\* active_nodes = self.slurm_monitor.get_active_nodes()
MonQueryNodes ==
    /\ rpc = "q_nodes"
    /\ \E result \in SinfoResults :
          /\ sinfo' = result
          /\ run_active_nodes' = get_active_nodes(result)
    /\ rpc' = "u_nodes"
    /\ StripFixed
    /\ UNCHANGED <<squeue, parts, mon_running, strip_enabled, rexc, rres, renderVars,
                   testVars,
                   nodeVars>>

\* the same statement followed by the partition query whether or not there is
\* a strip controller
MonUpdateNodes_nostripcheck ==
    /\ rpc = "u_nodes"
    /\ \E failAt \in 0..Len(node_pins) :
          LET st == update(Entry, run_active_nodes, failAt) IN
          /\ Leave(st, "update", run_active_nodes)
          /\ rexc' = ~st.ok
          /\ rpc' = IF ~st.ok THEN Finally ELSE "q_parts"
    /\ run_active_nodes' = {}
    /\ NodeFixed /\ StripFixed
    /\ UNCHANGED <<sinfo, squeue, parts, mon_running, strip_enabled, rres, renderVars,
                   testVars>>

\* self.led_controller.update(active_nodes); a gpio_write that raises leaves
\* the try block
MonUpdateNodes ==
    /\ rpc = "u_nodes"
    /\ \E failAt \in 0..Len(node_pins) :
          LET st == update(Entry, run_active_nodes, failAt) IN
          /\ Leave(st, "update", run_active_nodes)
          /\ rexc' = ~st.ok
          /\ rpc' = IF ~st.ok THEN Finally
                    ELSE IF strip_enabled THEN "q_parts" ELSE "sleep"
    /\ run_active_nodes' = {}
    /\ NodeFixed /\ StripFixed
    /\ UNCHANGED <<sinfo, squeue, parts, mon_running, strip_enabled, rres, renderVars,
                   testVars>>

\* normal_active, quantum_active = self.slurm_monitor.get_active_partitions()
MonQueryParts ==
    /\ rpc = "q_parts"
    /\ \E result \in SqueueResults :
          /\ squeue' = result
          /\ parts' = get_active_partitions(result)
    /\ rpc' = "u_strip"
    /\ StripFixed
    /\ UNCHANGED <<sinfo, run_active_nodes, mon_running, strip_enabled, rexc, rres,
                   renderVars, testVars, nodeVars>>

\* self.strip_controller.update_state(normal_active, quantum_active)
MonUpdateState ==
    /\ rpc = "u_strip"
    /\ normal_active' = parts[1]
    /\ quantum_active' = parts[2]
    /\ call' = [Call("update_state", parts[1], parts[2], "ok") EXCEPT
                  !.log = IF changed(parts[1], parts[2], normal_active, quantum_active)
                          THEN 1 ELSE 0]
    /\ parts' = NoPair
    /\ rpc' = "sleep"
    /\ UNCHANGED <<strip_simulation_mode, running, animation_thread, lock,
                   green_pos, blue_pos, strip, thr, config, mpc, mloc, replaced>>
    /\ UNCHANGED <<sinfo, squeue, run_active_nodes, mon_running, strip_enabled, rexc,
                   rres, renderVars, testVars, nodeVars>>

\* time.sleep(self.config.poll_interval); the iteration and what its two
\* subprocesses came back with are over
MonSleep ==
    /\ rpc = "sleep"
    /\ rpc' = "check"
    /\ sinfo' = NoQuery
    /\ squeue' = NoQuery
    /\ StripFixed
    /\ UNCHANGED <<run_active_nodes, parts, mon_running, strip_enabled, rexc, rres,
                   renderVars, testVars, nodeVars>>

\* finally: self.strip_controller.cleanup(), that is stop() (the join over or
\* timed out, then the final frame) and pixels.deinit(); on hardware the
\* final pixels.show() or the deinit may raise, which leaves the finally block
MonStripCleanup ==
    /\ rpc = "strip_cleanup"
    /\ running' = FALSE
    /\ \E timedOut \in BOOLEAN, res \in {"ok", "show_raised", "deinit_raised"} :
          /\ strip_simulation_mode => (~timedOut /\ res = "ok")
          /\ thr' = IF timedOut THEN thr
                    ELSE [thr EXCEPT ![animation_thread[1]] = At("done")]
          /\ strip' = IF strip_simulation_mode \/ res = "show_raised" THEN strip
                      ELSE OffFrame
          /\ call' = [Call("stop", FALSE, FALSE, IF res = "ok" THEN "ok" ELSE "raised")
                         EXCEPT !.timedOut = timedOut]
          /\ rpc' = IF res = "ok" THEN "led_cleanup" ELSE "exit"
          /\ rres' = IF res = "ok" THEN rres ELSE "raised"
    /\ UNCHANGED <<strip_simulation_mode, animation_thread, lock, normal_active,
                   quantum_active, green_pos, blue_pos, config, mpc, mloc, replaced>>
    /\ QueriesFixed
    /\ UNCHANGED <<mon_running, strip_enabled, rexc, renderVars, testVars, nodeVars>>

\* finally: self.led_controller.cleanup(), then the end of run(): the
\* exception that left the try block, if any, goes on
MonLedCleanup ==
    /\ rpc = "led_cleanup"
    /\ \E failAt \in 0..Len(node_pins) :
          LET st == all_off(Entry, failAt) IN
          /\ Leave(st, "cleanup", {})
          /\ handle' = IF st.ok /\ handle = "open" /\ ~simulation_mode
                       THEN "closed" ELSE handle
          /\ rres' = IF st.ok /\ ~rexc THEN "returned" ELSE "raised"
    /\ rpc' = "exit"
    /\ StripFixed /\ QueriesFixed
    /\ UNCHANGED <<simulation_mode, mon_running, strip_enabled, rexc, renderVars,
                   testVars>>

\* a handler that leaves the iteration at once
Signal_preempt ==
    /\ rpc # "exit"
    /\ mon_running
    /\ mon_running' = FALSE
    /\ rpc' = IF rpc \in Iteration THEN "check" ELSE rpc
    /\ StripFixed /\ QueriesFixed
    /\ UNCHANGED <<strip_enabled, rexc, rres, renderVars, testVars, nodeVars>>

\* SlurmLEDMonitor._signal_handler, run between two statements of run()
Signal ==
    /\ rpc # "exit"
    /\ mon_running
    /\ mon_running' = FALSE
    /\ StripFixed /\ QueriesFixed
    /\ UNCHANGED <<rpc, strip_enabled, rexc, rres, renderVars, testVars, nodeVars>>

\* the while loop of run(): its test and the statements of its body
PollLoop ==
    \/ MonCheck
    \/ MonQueryNodes \/ MonUpdateNodes \/ MonQueryParts \/ MonUpdateState \/ MonSleep

\* SlurmLEDMonitor.run
run ==
    \/ MonTest \/ MonStart
    \/ PollLoop
    \/ MonStripCleanup \/ MonLedCleanup

\* SlurmLEDMonitor.__init__, with or without the strip, run() about to start
MonitorInit ==
    /\ rpc = "test"
    /\ mon_running = TRUE
    /\ strip_enabled \in BOOLEAN
    /\ sinfo = NoQuery
    /\ run_active_nodes = {}
    /\ squeue = NoQuery
    /\ parts = NoPair
    /\ rexc = FALSE
    /\ rres = "running"

\* no monitor built
MonitorUnused == MonitorInit /\ strip_enabled = FALSE

-----------------------------------------------------------------------------
(* Specifications *)

MainNext == Start \/ update_state \/ stop

RenderNext == \E t \in Threads : animation_loop(t)

StripNext == MainNext \/ RenderNext

\* one LEDStripController as constructed, the node controller left alone
StripSpecInit ==
    StripInit /\ NodeUnused /\ RenderUnused /\ MonitorUnused /\ TestUnused

SpecStrip == StripSpecInit /\ [][StripNext]_vars

\* SlurmLEDMonitor.run's use of the strip controller: start() once, then
\* update_state once per poll iteration, then stop() once (from cleanup) and
\* nothing after it
RunStart == call.op = "init" /\ Start

RunUpdateState == call.op \in {"start", "update_state"} /\ update_state

RunStopCall == call.op \in {"start", "update_state"} /\ StopCall

RunMain ==
    \/ RunStart \/ RunUpdateState
    \/ RunStopCall \/ StopJoin \/ StopJoinTimeout \/ StopWrite

RunNext == RunMain \/ RenderNext

\* the strip controller as SlurmLEDMonitor.__init__ built it
RunInit == StripInit /\ NodeUnused /\ RenderUnused /\ MonitorUnused /\ TestUnused

SpecRun == RunInit /\ [][RunNext]_vars

\* the scheduler runs every thread that can take a step
SpecRunFair ==
    /\ SpecRun
    /\ WF_vars(RunMain)
    /\ \A t \in Threads : WF_vars(animation_loop(t))

\* the render threads are scheduled; the main thread makes its calls when it
\* chooses, or none
SpecRunLoopFair == SpecRun /\ \A t \in Threads : WF_vars(animation_loop(t))

\* a strip controller constructed on hardware with any of the configurations
RenderInit ==
    /\ config \in RenderConfigs
    /\ strip_simulation_mode = FALSE
    /\ running = FALSE
    /\ animation_thread = <<>>
    /\ lock = <<>>
    /\ normal_active = FALSE
    /\ quantum_active = FALSE
    /\ green_pos = 0
    /\ blue_pos = 0
    /\ strip = OffFrame
    /\ thr = [t \in Threads |-> NoThread]
    /\ mpc = "idle"
    /\ mloc = NoLocals
    /\ call = Call("init", FALSE, FALSE, "ok")
    /\ replaced = NoPair
    /\ NodeUnused
    /\ RenderUnused
    /\ MonitorUnused
    /\ TestUnused

\* the frames of _animation_loop, one after the other
SpecRender == RenderInit /\ [][RenderTick]_vars

\* calls of _comet_brightness
SpecBrightness == RenderInit /\ [][ProbeBrightness]_vars

\* main(): both controllers as constructed by SlurmLEDMonitor.__init__ (the
\* strip controller on hardware only if the strip is enabled), then run()
MonitorSpecInit ==
    /\ NodeInit
    /\ StripInit
    /\ RenderUnused
    /\ TestUnused
    /\ MonitorInit
    /\ ~strip_enabled => strip_simulation_mode

MonitorNext == run \/ Signal

SpecMonitor == MonitorSpecInit /\ [][MonitorNext]_vars

\* the main thread, once in its poll loop, goes on whenever it can
SpecMonitorFair == SpecMonitor /\ WF_vars(PollLoop)

\* main() with --test: the controller as constructed, test mode about to start
TestInit ==
    /\ NodeInit
    /\ StripUnused /\ RenderUnused /\ MonitorUnused
    /\ tpc = <<[at |-> 0, res |-> "running"]>>

TestNext == TestStep \/ TestClose

SpecTest == TestInit /\ [][TestNext]_vars

NodeNext == SetNode \/ Update \/ AllOn \/ AllOff \/ TestSequence \/ Cleanup

\* one NodeLEDController as constructed, the strip controller left alone
NodeSpecInit ==
    NodeInit /\ StripUnused /\ RenderUnused /\ MonitorUnused /\ TestUnused

SpecNode == NodeSpecInit /\ [][NodeNext]_vars

-----------------------------------------------------------------------------
(* Construction.  One controller is constructed, with any simulate argument, *)
(* with or without its driver module, its hardware claim raising or not, and *)
(* is then called.  Before construction lastOp.op (the node controller) and  *)
(* call.op (the strip controller) are "new".                                 *)

\* where the hardware claim of a constructor raises, if it does
NodeClaimFailures == {"gpiochip_open", "gpio_claim"}

StripClaimFailures == {"NeoPixel", "show"}

\* the hardware is claimed with no fallback: a claim that raises leaves
\* simulation_mode False and no usable handle
NodeConstructCall_nofallback(simulate, available, raisesAt) ==
    /\ simulation_mode' = (simulate \/ ~available)
    /\ handle' = IF simulate \/ ~available \/ raisesAt # "none" THEN "none" ELSE "open"
    /\ current_states' = [n \in Configured |-> FALSE]
    /\ pin' = [n \in Configured |-> FALSE]
    /\ writes' = <<>>
    /\ lastOp' = [op |-> "init", arg |-> {}, ok |-> TRUE]
    /\ prevUpdate' = NoUpdate
    /\ UNCHANGED <<stripVars, outerVars>>

\* NodeLEDController.__init__(node_pins, simulate) with GPIO_AVAILABLE =
\* available; raisesAt names the lgpio call that raises, "none" if none does
NodeConstructCall(simulate, available, raisesAt) ==
    /\ simulation_mode' = (simulate \/ ~available \/ raisesAt # "none")
    /\ handle' = IF simulate \/ ~available \/ raisesAt = "gpiochip_open" THEN "none"
                 ELSE "open"
    /\ current_states' = [n \in Configured |-> FALSE]
    /\ pin' = [n \in Configured |-> FALSE]
    /\ writes' = <<>>
    /\ lastOp' = [op |-> "init", arg |-> {}, ok |-> TRUE]
    /\ prevUpdate' = NoUpdate
    /\ UNCHANGED <<stripVars, outerVars>>

NodeConstruct ==
    /\ lastOp.op = "new" /\ call.op = "new"
    /\ \E simulate \in BOOLEAN, available \in BOOLEAN,
          raisesAt \in {"none"} \cup NodeClaimFailures :
          NodeConstructCall(simulate, available, raisesAt)

\* LEDStripController.__init__(config, simulate) with NEOPIXEL_AVAILABLE =
\* available; raisesAt names the step that raises: the NeoPixel constructor,
\* or the first fill and show
StripConstructCall(simulate, available, raisesAt) ==
    /\ strip_simulation_mode' = (simulate \/ ~available \/ raisesAt # "none")
    /\ running' = FALSE
    /\ animation_thread' = <<>>
    /\ lock' = <<>>
    /\ normal_active' = FALSE
    /\ quantum_active' = FALSE
    /\ green_pos' = 0
    /\ blue_pos' = 0
    /\ strip' = OffFrame
    /\ call' = Call("init", FALSE, FALSE, "ok")
    /\ UNCHANGED <<thr, config, mpc, mloc, replaced>>
    /\ UNCHANGED <<nodeVars, outerVars>>

StripConstruct ==
    /\ lastOp.op = "new" /\ call.op = "new"
    /\ \E simulate \in BOOLEAN, available \in BOOLEAN,
          raisesAt \in {"none"} \cup StripClaimFailures :
          StripConstructCall(simulate, available, raisesAt)

\* the calls made on the controller that was constructed
NodeCalls == lastOp.op # "new" /\ NodeNext

StripCalls == call.op # "new" /\ RunNext

ConstructNext == NodeConstruct \/ StripConstruct \/ NodeCalls \/ StripCalls

\* no controller constructed yet
ConstructInit ==
    /\ simulation_mode = TRUE /\ handle = "none"
    /\ current_states = [n \in Configured |-> FALSE]
    /\ pin = [n \in Configured |-> FALSE]
    /\ writes = <<>>
    /\ lastOp = [op |-> "new", arg |-> {}, ok |-> TRUE]
    /\ prevUpdate = NoUpdate
    /\ config = [strip_led_count |-> strip_led_count,
                 strip_comet_length |-> strip_comet_length]
    /\ strip_simulation_mode = TRUE
    /\ running = FALSE
    /\ animation_thread = <<>>
    /\ lock = <<>>
    /\ normal_active = FALSE
    /\ quantum_active = FALSE
    /\ green_pos = 0
    /\ blue_pos = 0
    /\ strip = OffFrame
    /\ thr = [t \in Threads |-> NoThread]
    /\ mpc = "idle"
    /\ mloc = NoLocals
    /\ call = Call("new", FALSE, FALSE, "ok")
    /\ replaced = NoPair
    /\ RenderUnused /\ MonitorUnused /\ TestUnused

SpecConstruct == ConstructInit /\ [][ConstructNext]_vars

-----------------------------------------------------------------------------
(* Properties of NodeLEDController, checked under SpecNode *)

\* C1: write-on-change.  When update(B) runs directly after an update(A) that
\* returned, every gpio_write that update(B) issues is for a configured node n
\* with (n \in A) # (n \in B); in particular update(A) after update(A) issues
\* no write at all.
C1_WriteOnChange ==
    (lastOp.op = "update" /\ prevUpdate # NoUpdate) =>
        /\ \A i \in 1..Len(writes) :
              LET n == writes[i][1] IN
              /\ n \in Configured
              /\ (n \in prevUpdate[1]) # (n \in lastOp.arg)
              /\ writes[i][2] = (n \in lastOp.arg)
        /\ (prevUpdate[1] = lastOp.arg => writes = <<>>)

\* an update(B) directly after an update(A), in hardware mode, that wrote
\* one node and left another, set in both A and B, alone
C1_Witness ==
    /\ lastOp.op = "update" /\ lastOp.ok
    /\ prevUpdate # NoUpdate
    /\ ~simulation_mode
    /\ Len(writes) = 1
    /\ \E n \in Configured : n \in prevUpdate[1] /\ n \in lastOp.arg

\* C2: in hardware mode current_states[node] is the last value successfully
\* written to the node's output (FALSE before any write), in every reachable
\* state, those after a raising gpio_write included.
C2_LastSuccessfulWrite ==
    ~simulation_mode => \A n \in Configured : current_states[n] = pin[n]

\* C3: after update(active) has returned normally, in hardware mode, every
\* configured node n has current_states[n] = (n \in active) and its output
\* has that value too.
C3_UpdatePostcondition ==
    (lastOp.op = "update" /\ lastOp.ok /\ ~simulation_mode) =>
        \A n \in Configured :
            /\ current_states[n] = (n \in lastOp.arg)
            /\ pin[n] = (n \in lastOp.arg)

\* C14: after cleanup() has returned, every configured output is false and
\* the handle opened at construction is released (no handle is left open).
C14_CleanupPostcondition ==
    (lastOp.op = "cleanup" /\ lastOp.ok) =>
        /\ \A n \in Configured : pin[n] = FALSE
        /\ handle # "open"

-----------------------------------------------------------------------------
(* Properties of LEDStripController, checked under SpecStrip; C8, with its   *)
(* termination part, under SpecRunFair                                       *)

\* the flag pairs that stand, or stood when the running update_state took the
\* lock, completely written: the pair in place, or inside update_state's two
\* writes the pair it replaces and its argument pair
WholePairs ==
    IF mpc = "us_wq"
    THEN {<<mloc.old_normal, mloc.old_quantum>>, <<call.n, call.q>>}
    ELSE {<<normal_active, quantum_active>>}

\* C4: the flag pair is never observed half-updated.  Whenever a render thread
\* completes its copy of the two flags, the pair it copied is a completely
\* written pair: the pair in place before an update_state call (the initial
\* pair before the first) or that call's argument pair, never normal from one
\* and quantum from the other; and when update_state has returned the pair
\* in place is its argument pair.
C4_NoTornCopy ==
    /\ [][\A t \in Threads :
            (thr[t].pc = "read_q" /\ thr'[t].pc = "frame") =>
                <<thr'[t].normal, thr'[t].quantum>> \in WholePairs]_vars
    /\ []((mpc = "idle" /\ call.op = "update_state") =>
              <<normal_active, quantum_active>> = <<call.n, call.q>>)
    /\ []((mpc # "idle" /\ call.op = "update_state") =>
              replaced = IF mpc = "us_wq" THEN <<mloc.old_normal, mloc.old_quantum>>
                         ELSE <<normal_active, quantum_active>>)

\* a render thread holds a copy (TRUE, FALSE) while the main thread is between
\* the two writes of a later update_state
C4_Witness ==
    /\ mpc = "us_wq"
    /\ \E t \in Threads : thr[t].pc = "frame" /\ thr[t].normal /\ ~thr[t].quantum

\* C5 as stated: whenever a render thread is building a frame, writing the
\* strip or sleeping, the lock is free.
C5_LockFree ==
    \A t \in Threads : thr[t].pc \in {"frame", "show", "sleep"} => lock = <<>>

\* C5 as amended: a render thread holds the lock only inside its two-flag copy,
\* never while it builds a frame, writes the strip or sleeps; the main thread
\* holds it only between update_state's two writes; so whoever holds the lock
\* is at a step it can take at once, and the threads never all wait on it.
C5_LockOnlyForCopy ==
    /\ \A t \in Threads : lock = <<t>> => thr[t].pc = "read_q"
    /\ lock = <<MainThread>> => mpc = "us_wq"
    /\ lock \in {<<>>, <<MainThread>>} \cup {<<t>> : t \in Threads}
    /\ (mpc = "us_acquire" /\ lock # <<>>) =>
           \E t \in Threads : lock = <<t>> /\ thr[t].pc = "read_q"

\* the main thread holds the lock while a render thread is inside the strip write
C5_Witness ==
    /\ lock = <<MainThread>>
    /\ \E t \in Threads : thr[t].pc = "show"

\* a step of the main thread
MainStep == mpc' # mpc \/ call' # call

\* C6 as stated: the flag pair is the only state both threads access, under
\* the lock.  So the main thread writes neither self.running, which the render
\* loop reads, nor the strip, which the render loop writes, while a render
\* thread exists, and the flags are written and read with the lock held.
C6_OnlyFlagsShared ==
    /\ [][(running' # running) => \A t \in Threads : ~Live(t)]_vars
    /\ [][(MainStep /\ strip' # strip) => \A t \in Threads : ~Live(t)]_vars
    /\ [](\A t \in Threads : thr[t].pc = "read_q" => lock = <<t>>)

\* C6 as amended: every access to the flag pair holds the lock (the render
\* thread between its two reads, the main thread in the steps that write),
\* and the phase counters are never touched by a step of the main thread.
C6_FlagsUnderLock ==
    /\ [](\A t \in Threads : thr[t].pc = "read_q" => lock = <<t>>)
    /\ [][(normal_active' # normal_active) => (MainStep /\ lock' = <<MainThread>>)]_vars
    /\ [][(quantum_active' # quantum_active) => (MainStep /\ lock = <<MainThread>>)]_vars
    /\ [][MainStep => UNCHANGED <<green_pos, blue_pos>>]_vars

\* the main thread waits for the lock while a render thread holds it
C6_Witness ==
    /\ mpc = "us_acquire"
    /\ \E t \in Threads : lock = <<t>> /\ thr[t].pc = "read_q"

InStop == mpc \in {"stop_join", "stop_write"}

\* C8: stop() always terminates.  Inside stop() self.running is False; stop()
\* does not touch the strip before its join is over; when it returns normally
\* on a hardware strip, the all-off frame it wrote is on the strip; and every
\* stop() that was called comes to its end, joined or timed out.
C8_StopTerminates ==
    /\ [](InStop => ~running)
    /\ [][(MainStep /\ mpc' \in {"stop_join", "stop_write"}) => strip' = strip]_vars
    /\ [][(StopWrite /\ call'.res = "ok" /\ ~strip_simulation_mode) =>
             strip' = OffFrame]_vars
    /\ (InStop ~> mpc = "idle")

\* a stop() that returned after its join timed out, the loop still alive
C8_Witness ==
    /\ mpc = "idle" /\ call.op = "stop" /\ call.res = "ok" /\ call.timedOut
    /\ Live(animation_thread[1])

\* C9: start() is idempotent.  A start() call made while self.running is set
\* changes nothing of the engine: no thread is spawned, and running,
\* animation_thread, the flags, the counters and the strip stay as they are.
C9_StartIdempotent == [][(Start /\ running) => UNCHANGED engineVars]_vars

\* start() was called while the engine was running with a live render thread
C9_Witness ==
    /\ call.op = "start" /\ call.res = "noop"
    /\ \E t \in Threads : Live(t)

\* C10: update_state(n, q) emits one log line when (n, q) differs from the
\* flag pair it replaces and none when it is equal; and the pair that an
\* update_state directly after another update_state replaces is that call's
\* argument pair, so the same pair passed twice logs nothing the second time.
C10_OneLogPerChange ==
    /\ [][UpdateStateFinish =>
             call'.log = IF <<call.n, call.q>> # replaced THEN 1 ELSE 0]_vars
    /\ [][(UpdateStateCall /\ call.op = "update_state") =>
             replaced' = <<call.n, call.q>>]_vars

\* update_state(TRUE, FALSE) has returned and logged nothing
C10_Witness ==
    /\ mpc = "idle" /\ call.op = "update_state" /\ call.res = "ok"
    /\ call.n /\ ~call.q
    /\ call.log = 0

\* C11: a strip write that raises inside one iteration of the render loop is
\* caught within that iteration: the thread goes on to its sleep and to the
\* next iteration, it does not end.
C11_WriteErrorCaught ==
    [][\A t \in Threads : ShowRaises(t) => thr'[t].pc = "sleep"]_vars

-----------------------------------------------------------------------------
(* Properties of the renderer: C17 under SpecBrightness, C18 to C20 under    *)
(* SpecRender.  A brightness is the exact fraction <<numerator, denominator>> *)
(* of the float the code computes; int(channel * brightness) is its floor,   *)
(* which the float product has too: 255 is square-free, so the exact product *)
(* is an integer only for brightness 1.0 and is otherwise at least           *)
(* 1 / length^2 away from one.                                               *)

\* a <= b for fractions with positive denominators
Leq(a, b) == a[1] * b[2] <= b[1] * a[2]

\* C17: _comet_brightness(d, L) is exactly 0 for d < 0 and for d >= L, and
\* for 0 <= d1 <= d2 < L the brightness at d2 is no larger than at d1, for
\* every comet length L >= 1.
C17_BrightnessMonotone ==
    LET L == config.strip_comet_length IN
    /\ \A i \in 1..Len(probe) :
          (probe[i].distance < 0 \/ probe[i].distance >= L) => probe[i].brightness[1] = 0
    /\ \A i \in 1..Len(probe), j \in 1..Len(probe) :
          (0 <= probe[i].distance /\ probe[i].distance <= probe[j].distance
                                  /\ probe[j].distance < L)
              => Leq(probe[j].brightness, probe[i].brightness)

\* two calls inside a comet of length 4, the farther one strictly dimmer and
\* not dark
C17_Witness ==
    /\ config.strip_comet_length = 4
    /\ Len(probe) = 2
    /\ probe[2].distance = 1 /\ probe[1].distance = 3
    /\ probe[1].brightness[1] > 0
    /\ ~Leq(probe[2].brightness, probe[1].brightness)

\* C18: in every frame built, for every flag combination, every pair of
\* counters, every strip length and every comet length, a comet longer than
\* its strip included, the frame has one pixel per led and every channel of
\* every pixel is an integer in 0..255.
C18_ChannelsInRange ==
    tick # NoTick =>
        /\ DOMAIN tick[1].buffer = Pixels
        /\ \A p \in Pixels, k \in 1..3 : tick[1].buffer[p][k] \in 0..255

\* a dual frame of a comet longer than its strip, a pixel at full green and
\* full blue
C18_Witness ==
    /\ tick # NoTick
    /\ tick[1].normal /\ tick[1].quantum
    /\ config.strip_comet_length > config.strip_led_count
    /\ \E p \in Pixels : tick[1].buffer[p] = <<0, 255, 255>>

\* the frame of the green comet alone, and of the blue comet alone, at the
\* positions a dual frame draws them
GreenAlone(t) == render_comet(t.green_pos, GREEN, OffFrame)

BlueAlone(t) == render_comet(config.strip_led_count - 1 - t.blue_pos, BLUE, OffFrame)

\* C19: in a dual-activity frame every pixel has, per channel, the value
\* min(255, green contribution + blue contribution), so no channel is below
\* the same channel of either comet alone.
C19_SaturatingSum ==
    (tick # NoTick /\ tick[1].normal /\ tick[1].quantum) =>
        LET green == GreenAlone(tick[1])
            blue == BlueAlone(tick[1])
        IN \A p \in Pixels, k \in 1..3 :
              /\ tick[1].buffer[p][k] = Min(255, green[p][k] + blue[p][k])
              /\ tick[1].buffer[p][k] >= green[p][k]
              /\ tick[1].buffer[p][k] >= blue[p][k]

\* a dual frame on the default strip with a pixel lit by both comets
C19_Witness ==
    /\ tick # NoTick /\ tick[1].normal /\ tick[1].quantum
    /\ config.strip_led_count = DefaultLedCount
    /\ LET green == GreenAlone(tick[1])
           blue == BlueAlone(tick[1])
       IN \E p \in Pixels : /\ green[p] # OFF /\ blue[p] # OFF
                            /\ tick[1].buffer[p][2] > 0 /\ tick[1].buffer[p][3] > 0

\* the frame just built was a dual-activity frame
DualTick == RenderTick /\ tick'[1].normal /\ tick'[1].quantum

\* C20: a dual-activity frame on N pixels has the green head (full green) at
\* index green_pos and the blue head (full blue) at index N-1-blue_pos, and
\* the tick moves the green head index up by 1 modulo N and the blue head
\* index down by 1 modulo N; with N = 60 and both counters 0 the heads are at
\* 0 and 59 and after the tick at 1 and 58.
C20_DualHeads ==
    /\ [][DualTick =>
            LET N == config.strip_led_count IN
            /\ tick'[1].buffer[green_pos][2] = 255
            /\ tick'[1].buffer[N - 1 - blue_pos][3] = 255
            /\ green_pos' = (green_pos + 1) % N
            /\ N - 1 - blue_pos' = ((N - 1 - blue_pos) - 1) % N]_vars
    /\ []((/\ tick # NoTick /\ tick[1].normal /\ tick[1].quantum
           /\ config.strip_led_count = DefaultLedCount
           /\ tick[1].green_pos = 0 /\ tick[1].blue_pos = 0) =>
              /\ tick[1].buffer[0][2] = 255
              /\ tick[1].buffer[59][3] = 255
              /\ \A p \in Pixels : /\ tick[1].buffer[p][2] = 255 => p = 0
                                   /\ tick[1].buffer[p][3] = 255 => p = 59
              /\ green_pos = 1
              /\ config.strip_led_count - 1 - blue_pos = 58)

\* the dual frame built from both counters 0 on the default strip
C20_Witness ==
    /\ tick # NoTick /\ tick[1].normal /\ tick[1].quantum
    /\ config.strip_led_count = DefaultLedCount
    /\ tick[1].green_pos = 0 /\ tick[1].blue_pos = 0
    /\ green_pos = 1 /\ blue_pos = 1

-----------------------------------------------------------------------------
(* Properties of SlurmLEDMonitor.run, checked under SpecMonitor; C15, with   *)
(* its eventuality, under SpecMonitorFair                                    *)

\* C12: an error raised by a collaborator inside a poll iteration, such as a
\* gpio_write failing inside update, does not leave the poll loop: run() goes
\* on with the statements of the loop.
C12_PollErrorContained ==
    [][(MonUpdateNodes /\ ~lastOp'.ok) => rpc' \in Monitoring]_vars

\* the node sinfo printed as busy, and the partitions squeue printed
Busy(result) == {node \in Reported : result.stdout[node] = "MIXED"}

\* C13: a failed scheduler query does not raise and is not retried: run() goes
\* on to the update with the empty set, or with (FALSE, FALSE); the update of
\* that tick leaves every node LED off (record and output) and both flags
\* false; and the update after a query that succeeded leaves the LEDs and the
\* flags as the scheduler reported them.
C13_FailedQueryNoActivity ==
    /\ [][(MonQueryNodes /\ sinfo'.outcome \in QueryFailures) =>
             (run_active_nodes' = {} /\ rpc' = "u_nodes" /\ rres' = "running")]_vars
    /\ [][(MonQueryParts /\ squeue'.outcome \in QueryFailures) =>
             (parts' = <<FALSE, FALSE>> /\ rpc' = "u_strip" /\ rres' = "running")]_vars
    /\ [][(MonUpdateNodes /\ lastOp'.ok /\ sinfo.outcome \in QueryFailures) =>
             \A n \in Configured : ~current_states'[n] /\ ~pin'[n]]_vars
    /\ [][(MonUpdateState /\ squeue.outcome \in QueryFailures) =>
             (~normal_active' /\ ~quantum_active')]_vars
    /\ [][(MonUpdateNodes /\ lastOp'.ok /\ sinfo.outcome = "ok") =>
             \A n \in Configured :
                /\ current_states'[n] = (n \in Busy(sinfo))
                /\ ~simulation_mode => pin'[n] = (n \in Busy(sinfo))]_vars
    /\ [][(MonUpdateState /\ squeue.outcome = "ok") =>
             /\ normal_active' = ("normal" \in squeue.stdout)
             /\ quantum_active' = ("QUANTUM" \in squeue.stdout)]_vars

\* a tick on hardware in which both queries failed: its update switched a LED
\* off and its update_state changed the flags to (FALSE, FALSE)
C13_Witness ==
    /\ rpc = "sleep"
    /\ sinfo.outcome = "timeout" /\ squeue.outcome = "rc"
    /\ ~simulation_mode
    /\ lastOp.op = "update" /\ lastOp.ok /\ writes # <<>>
    /\ call.op = "update_state" /\ call.log = 1
    /\ ~normal_active /\ ~quantum_active

\* the statement after each statement of a poll iteration
NextStatement(pc) ==
    IF pc = "q_nodes" THEN "u_nodes"
    ELSE IF pc = "u_nodes" THEN (IF strip_enabled THEN "q_parts" ELSE "sleep")
    ELSE IF pc = "q_parts" THEN "u_strip"
    ELSE IF pc = "u_strip" THEN "sleep"
    ELSE "check"

\* C15: the signal handler only sets self.running to False, it touches no
\* controller and no hardware; after it ran during monitoring, the iteration
\* in progress goes on statement by statement to its end (unless an update
\* raises), the loop test then leaves the loop for the finally block, and the
\* cleanup of the finally block is eventually reached.
C15_CooperativeShutdown ==
    /\ [][(mon_running /\ ~mon_running') =>
             UNCHANGED <<nodeVars, stripVars, renderVars, testVars, rpc, strip_enabled,
                         sinfo,
                         run_active_nodes, squeue, parts, rexc, rres>>]_vars
    /\ [][(~mon_running /\ rpc \in Iteration /\ rpc' # rpc /\ ~rexc') =>
             rpc' = NextStatement(rpc)]_vars
    /\ [][(~mon_running /\ rpc = "check" /\ rpc' # rpc) => rpc' = Finally]_vars
    /\ ((~mon_running /\ rpc \in Monitoring) ~> (rpc \in {"strip_cleanup", "led_cleanup"}))

\* the signal has come and the iteration in progress is at its last update
C15_Witness ==
    /\ ~mon_running
    /\ rpc = "u_strip"
    /\ squeue.outcome = "ok"

\* C16: run() ends with the cleanup in its order: the engine's stop has
\* returned before the indicator bank's cleanup begins and before any of its
\* writes, and after the engine's cleanup the indicator bank is cleaned up.
C16_CleanupOrder ==
    /\ [][MonLedCleanup =>
             (strip_enabled => (call.op = "stop" /\ call.res = "ok" /\ ~running))]_vars
    /\ [](lastOp.op = "cleanup" => (strip_enabled => (call.op = "stop" /\ ~running)))
    /\ [][(rpc = "strip_cleanup" /\ rpc' # rpc) => rpc' = "led_cleanup"]_vars

-----------------------------------------------------------------------------
(* Properties of the frames of single-activity mode, checked under SpecRender *)

\* the frame just built is the one of the scenario: strip length 60, comet
\* length 10, only the normal partition active, green phase 5
Scenario ==
    /\ tick # NoTick
    /\ config.strip_led_count = 60 /\ config.strip_comet_length = 10
    /\ tick[1].normal /\ ~tick[1].quantum
    /\ tick[1].green_pos = 5

\* C21: in the scenario frame pixel 5 is full green (0, 255, 0), and pixel 55
\* and every other pixel that is not at a tail distance 0..9 behind the head
\* (modulo 60) is off (0, 0, 0).
C21_ScenarioHeadAndDark ==
    Scenario =>
        /\ tick[1].buffer[5] = <<0, 255, 0>>
        /\ tick[1].buffer[55] = <<0, 0, 0>>
        /\ \A p \in Pixels :
              (\A d \in 0..9 : p # (5 - d) % 60) => tick[1].buffer[p] = <<0, 0, 0>>

\* the scenario frame has been built, its tail wrapping down to pixel 56
C21_Witness ==
    /\ Scenario
    /\ tick[1].buffer[56] # OFF
    /\ green_pos = 6

\* C22 as the spec has it: in the scenario frame pixel 0 has brightness
\* (1 - 0/10)^2 times green, the full green of the head.
C22_PixelZeroFull ==
    Scenario => tick[1].buffer[0] = <<0, scale(255, comet_brightness(0, 10)), 0>>

\* C22, amended: in the scenario frame pixel 0 is 5 behind the head at pixel 5
\* and has brightness (1 - 5/10)^2 = 0.25 times green, the colour (0, 63, 0).
C22_PixelZeroQuarter ==
    Scenario =>
        /\ tick[1].buffer[0] = <<0, scale(255, comet_brightness(5, 10)), 0>>
        /\ tick[1].buffer[0] = <<0, 63, 0>>

\* the scenario frame has been built, pixel 0 lit and dimmer than the head
C22_Witness ==
    /\ Scenario
    /\ tick[1].buffer[0][2] > 0
    /\ tick[1].buffer[0][2] < tick[1].buffer[5][2]

-----------------------------------------------------------------------------
(* Properties of test mode, checked under SpecTest *)

\* the indicators recorded on, and the outputs driven high
Lit == {n \in Configured : current_states[n]}

High == {n \in Configured : pin[n]}

\* the configured indicators among the first k of the test order
OrderPrefix(k) == {TestOrder[i] : i \in 1..k} \cap Configured

\* C23: while test_sequence runs with no write raising, the indicators lit
\* after k of its first six set_node calls are the first k of c1, c2, c3, c4,
\* q1, q2; after k more calls, all but the last k of that order (off in the
\* reverse order); then all are on after each all_on and none after each
\* all_off, twice; and none is on when test_sequence returns.  On hardware
\* the outputs driven high are the indicators lit.
C23_TestSequenceOrder ==
    (tpc # NoTest /\ tpc[1].res # "raised") =>
        LET k == tpc[1].at
            n == Len(node_pins)
        IN /\ k \in 0..6 => Lit = OrderPrefix(k)
           /\ k \in 6..12 => Lit = OrderPrefix(12 - k)
           /\ k \in {12 + n, 12 + 3 * n} => Lit = Configured
           /\ k \in {12 + 2 * n, 12 + 4 * n} => Lit = {}
           /\ k \in 12..(12 + n) => Lit = {node_pins[i] : i \in 1..(k - 12)}
           /\ k \in (12 + n)..(12 + 2 * n) =>
                 Lit = Configured \ {node_pins[i] : i \in 1..(k - 12 - n)}
           /\ k >= Len(TestSteps) => Lit = {}
           /\ ~simulation_mode => High = Lit

\* on hardware, the reverse pass has switched off all but c1, the last write
\* being the one that switched c2 off
C23_Witness ==
    /\ tpc # NoTest /\ tpc[1].res = "running"
    /\ tpc[1].at = 11
    /\ ~simulation_mode
    /\ Lit = {"c1"} /\ High = {"c1"}
    /\ writes = << <<"c2", FALSE>> >>

-----------------------------------------------------------------------------
(* Properties of NodeLEDController across its two modes, checked under       *)
(* SpecNode                                                                  *)

\* the step is the call set_node(node, state), its first write raising or not
SetNodeCall(node, state, failAt) ==
    /\ Commit(set_node(Entry, node, state, failAt), "set_node", {})
    /\ UNCHANGED <<simulation_mode, handle>>

AllStates(state) == [n \in Configured |-> state]

\* C24: the bookkeeping does not depend on the mode.  After every call that
\* returns (lastOp names the call), current_states is a function of its value before the call and of
\* the call alone - set_node(n, s) sets n to s, update(A) sets each node to
\* (n in A), all_on sets all, all_off and cleanup clear all - so a controller
\* in simulation mode and one on hardware, both all-off as constructed, go
\* through the same values; and in simulation mode every call returns, issues
\* no gpio_write, changes no output and leaves the handle alone.
C24_SameBookkeeping ==
    /\ [][(lastOp'.op = "set_node" /\ lastOp'.ok) =>
            \A node \in NodeNames, state \in BOOLEAN, failAt \in 0..1 :
                SetNodeCall(node, state, failAt) =>
                    current_states' = IF node \in Configured
                                      THEN [current_states EXCEPT ![node] = state]
                                      ELSE current_states]_vars
    /\ [][(lastOp'.op = "update" /\ lastOp'.ok) =>
            current_states' = [n \in Configured |-> n \in lastOp'.arg]]_vars
    /\ [][(lastOp'.op = "all_on" /\ lastOp'.ok) => current_states' = AllStates(TRUE)]_vars
    /\ [][(lastOp'.op \in {"all_off", "cleanup"} /\ lastOp'.ok) =>
            current_states' = AllStates(FALSE)]_vars
    /\ [][simulation_mode =>
            (lastOp'.ok /\ writes' = <<>> /\ pin' = pin /\ handle' = handle)]_vars

\* a controller in simulation mode has recorded c1 and c3 on in an update and
\* driven nothing
C24_Witness ==
    /\ simulation_mode
    /\ lastOp.op = "update" /\ lastOp.arg = {"c1", "c3"}
    /\ Lit = {"c1", "c3"}
    /\ High = {}
    /\ writes = <<>>

-----------------------------------------------------------------------------
(* Properties of construction, checked under SpecConstruct *)

\* C25: a hardware claim that raises is never fatal.  When gpiochip_open or a
\* gpio_claim_output raises in NodeLEDController.__init__, or the NeoPixel
\* constructor or the first show in LEDStripController.__init__, the
\* constructor returns with simulation_mode True; simulation_mode then never
\* changes; and every later step of a controller in simulation mode (update
\* and the other node calls, start, update_state, the render loop, stop,
\* cleanup) raises nothing and touches no hardware: no gpio_write is issued,
\* no output changes, the GPIO handle is not closed, no thread enters the
\* strip write and the strip keeps its frame.
C25_ClaimFailureNotFatal ==
    /\ [][lastOp.op = "new" =>
            \A simulate \in BOOLEAN, available \in BOOLEAN :
               /\ \A raisesAt \in NodeClaimFailures :
                     NodeConstructCall(simulate, available, raisesAt) =>
                         (simulation_mode' /\ lastOp'.op = "init" /\ lastOp'.ok)
               /\ \A raisesAt \in StripClaimFailures :
                     StripConstructCall(simulate, available, raisesAt) =>
                         /\ strip_simulation_mode'
                         /\ call'.op = "init" /\ call'.res = "ok"]_vars
    /\ [][(lastOp.op # "new" /\ simulation_mode) =>
            /\ simulation_mode'
            /\ lastOp'.ok
            /\ writes' = <<>> /\ pin' = pin /\ handle' = handle]_vars
    /\ [][(call.op # "new" /\ strip_simulation_mode) =>
            /\ strip_simulation_mode'
            /\ call'.res # "raised"
            /\ strip' = strip
            /\ \A t \in Threads : thr'[t].pc # "show"]_vars

\* a node controller whose gpio_claim_output raised (simulation mode, the
\* handle left open) has been updated and cleaned up with nothing written
C25_Witness ==
    /\ simulation_mode /\ handle = "open"
    /\ prevUpdate # NoUpdate /\ prevUpdate[1] # {}
    /\ lastOp.op = "cleanup" /\ lastOp.ok
    /\ writes = <<>>
    /\ High = {}

-----------------------------------------------------------------------------
(* Properties of the phase counters and of the single-activity frames,       *)
(* checked under SpecRender                                                  *)

\* C26: green_pos and blue_pos are in 0..strip_led_count-1 in every state;
\* each frame is drawn at the counters as they were, and a frame in which the
\* green comet is drawn (normal copied true) moves green_pos by exactly 1
\* modulo strip_led_count, a frame without it leaves green_pos alone; the same
\* for blue_pos and the blue comet (quantum copied true).
C26_PhaseCounters ==
    /\ [](green_pos \in Pixels /\ blue_pos \in Pixels)
    /\ [][LET N == config.strip_led_count IN
          /\ tick'[1].green_pos = green_pos
          /\ tick'[1].blue_pos = blue_pos
          /\ green_pos' = IF tick'[1].normal THEN (green_pos + 1) % N ELSE green_pos
          /\ blue_pos' = IF tick'[1].quantum THEN (blue_pos + 1) % N ELSE blue_pos]_vars

\* on the default strip a green-only frame drawn at the last pixel has taken
\* green_pos back to 0 and left blue_pos where it was
C26_Witness ==
    /\ tick # NoTick
    /\ config.strip_led_count = DefaultLedCount
    /\ tick[1].normal /\ ~tick[1].quantum
    /\ tick[1].green_pos = DefaultLedCount - 1
    /\ green_pos = 0
    /\ blue_pos = tick[1].blue_pos /\ blue_pos > 0

\* the pixels of a comet with its head at position: head and tail
CometPixels(position) ==
    {(position - d) % config.strip_led_count : d \in 0..(config.strip_comet_length - 1)}

\* C27: a frame built with only normal copied true has full green at
\* green_pos, every pixel outside the green comet's head and tail off, the red
\* and the blue channel 0 in every pixel, and blue_pos as it was; a frame
\* built with only quantum copied true has full blue at blue_pos, every pixel
\* outside the blue comet off, the red and the green channel 0 in every pixel,
\* and green_pos as it was.
C27_SingleActivity ==
    /\ (tick # NoTick /\ tick[1].normal /\ ~tick[1].quantum) =>
          /\ tick[1].buffer[tick[1].green_pos] = GREEN
          /\ \A p \in Pixels \ CometPixels(tick[1].green_pos) : tick[1].buffer[p] = OFF
          /\ \A p \in Pixels : tick[1].buffer[p][1] = 0 /\ tick[1].buffer[p][3] = 0
          /\ blue_pos = tick[1].blue_pos
    /\ (tick # NoTick /\ ~tick[1].normal /\ tick[1].quantum) =>
          /\ tick[1].buffer[tick[1].blue_pos] = BLUE
          /\ \A p \in Pixels \ CometPixels(tick[1].blue_pos) : tick[1].buffer[p] = OFF
          /\ \A p \in Pixels : tick[1].buffer[p][1] = 0 /\ tick[1].buffer[p][2] = 0
          /\ green_pos = tick[1].green_pos

\* a blue-only frame on the default strip, drawn at pixel 3 while the green
\* counter stands elsewhere
C27_Witness ==
    /\ tick # NoTick /\ ~tick[1].normal /\ tick[1].quantum
    /\ config.strip_led_count = DefaultLedCount
    /\ tick[1].blue_pos = 3
    /\ tick[1].buffer[3] = BLUE
    /\ tick[1].buffer[4] = OFF
    /\ green_pos = 7 /\ tick[1].green_pos = 7

-----------------------------------------------------------------------------
(* Properties of the render loop's no-activity branch, checked under SpecRun *)

\* C28: an iteration of the render loop that copied both flags false leaves
\* green_pos and blue_pos alone and, on a hardware strip, goes to one strip
\* write of the all-off frame; that write, when it returns, leaves the strip
\* all off and is followed by the sleep; and only after the sleep does the
\* loop test self.running and copy the flags again.  In simulation the
\* iteration goes straight to the sleep.
C28_NoActivityFrame ==
    /\ [][\A t \in Threads :
            (thr[t].pc = "frame" /\ ~thr[t].normal /\ ~thr[t].quantum
                                 /\ thr'[t].pc # "frame") =>
                /\ green_pos' = green_pos /\ blue_pos' = blue_pos
                /\ strip' = strip
                /\ IF strip_simulation_mode THEN thr'[t].pc = "sleep"
                   ELSE thr'[t].pc = "show" /\ thr'[t].buffer = OffFrame]_vars
    /\ [][\A t \in Threads :
            (thr[t].pc = "show" /\ thr[t].buffer = OffFrame
                                /\ thr'[t].pc \notin {"show", "done"}) =>
                /\ strip' = OffFrame
                /\ thr'[t].pc = "sleep"
                /\ green_pos' = green_pos /\ blue_pos' = blue_pos]_vars
    /\ [][\A t \in Threads :
            (thr[t].pc = "sleep" /\ thr'[t].pc # "sleep") =>
                /\ thr'[t].pc \in {"acquire", "done"}
                /\ strip' = strip]_vars

\* on hardware, after a green frame was shown the flags went back to false
\* and the loop, still running, wrote the strip all off and is in its sleep
C28_Witness ==
    /\ ~strip_simulation_mode
    /\ running
    /\ ~normal_active /\ ~quantum_active
    /\ call.op = "update_state"
    /\ green_pos > 0
    /\ strip = OffFrame
    /\ \E t \in Threads : thr[t].pc = "sleep"

-----------------------------------------------------------------------------
(* Properties of the comet's shape and motion, checked under SpecRender *)

\* floor(channel * (L - d)^2 / L^2) for the configured comet length L
Shade(channel, d) ==
    LET L == config.strip_comet_length
    IN (channel * (L - d) * (L - d)) \div (L * L)

\* the frame was built with one flag copied true: its colour and head position
SingleTick == tick # NoTick /\ (tick[1].normal # tick[1].quantum)

BaseColour == IF tick[1].normal THEN GREEN ELSE BLUE

HeadPosition == IF tick[1].normal THEN tick[1].green_pos ELSE tick[1].blue_pos

\* C29: in a frame of a single comet with head position p, on N pixels with
\* comet length L <= N, the pixel at index (p - d) mod N has, for 0 <= d < L,
\* each channel equal to floor(base_channel * (L-d)^2 / L^2), and the head
\* pixel (d = 0) has exactly the base colour.
C29_TailShades ==
    (SingleTick /\ config.strip_comet_length <= config.strip_led_count) =>
        LET N == config.strip_led_count
            L == config.strip_comet_length
        IN /\ \A d \in 0..(L - 1), k \in 1..3 :
                 tick[1].buffer[(HeadPosition - d) % N][k] = Shade(BaseColour[k], d)
           /\ tick[1].buffer[HeadPosition] = BaseColour

\* a green comet on the default strip with its head at 20: the last tail
\* pixel, 9 behind, has floor(255 / 100) = 2, the one before floor(255 * 4 / 100)
C29_Witness ==
    /\ SingleTick /\ tick[1].normal
    /\ config.strip_led_count = DefaultLedCount
    /\ config.strip_comet_length = DefaultCometLength
    /\ tick[1].green_pos = 20
    /\ tick[1].buffer[11] = <<0, 2, 0>>
    /\ tick[1].buffer[12] = <<0, 10, 0>>
    /\ tick[1].buffer[10] = OFF

\* channel k of the frame holds a comet: green (2) when normal was copied
\* true, blue (3) when quantum was
Drawn(t, k) == IF k = 2 THEN t.normal ELSE t.quantum

\* C30: the tail trails the head.  For two frames built one after the other
\* in the same mode, with the comet no longer than the strip, each pixel at
\* tail offset d (0 < d < L) of the later frame was at offset d - 1 of the
\* earlier one, so that the pixel at offset d is where the head was d frames
\* earlier; for the green comet and for the blue comet, in single and in dual
\* mode.  The pixel at offset d of a colour is the one whose channel holds
\* floor(255 * (L-d)^2 / L^2).
C30_TailTrails ==
    [][(/\ tick # NoTick
        /\ tick'[1].normal = tick[1].normal /\ tick'[1].quantum = tick[1].quantum
        /\ config.strip_comet_length <= config.strip_led_count) =>
            \A k \in {2, 3} :
               Drawn(tick[1], k) =>
                  \A d \in 1..(config.strip_comet_length - 1), p \in Pixels :
                     tick'[1].buffer[p][k] = Shade(255, d) =>
                        tick[1].buffer[p][k] = Shade(255, d - 1)]_vars


-----------------------------------------------------------------------------
(* Properties of the engine under concurrent calls: C31 under SpecRun        *)

\* the render thread t leaves the branch that builds its frame
FrameStep(t) == thr[t].pc = "frame" /\ thr'[t].pc # "frame"

\* C31: each frame is computed only from the flag pair the iteration copied
\* under the lock and from the phase counters.  The frame built and the
\* counters advanced follow the copies, the frame written is the frame built,
\* a step of update_state changes neither the copies or the frame of a thread
\* that is past its copy, nor the counters, nor the strip; and the next copy
\* takes the flags in place then.
C31_FrameFromCopies ==
    [][\A t \in Threads :
          /\ FrameStep(t) =>
                /\ green_pos' = IF thr[t].normal THEN advance(green_pos) ELSE green_pos
                /\ blue_pos' = IF thr[t].quantum THEN advance(blue_pos) ELSE blue_pos
                /\ thr'[t].pc = "show" =>
                      thr'[t].buffer =
                          render_frame(thr[t].normal, thr[t].quantum, green_pos, blue_pos)
          /\ (thr[t].pc = "show" /\ thr'[t].pc = "sleep") => strip' = thr[t].buffer
          /\ (mpc \in {"us_acquire", "us_wq"} /\ MainStep) =>
                /\ thr[t].pc \in {"frame", "show"} => thr'[t] = thr[t]
                /\ UNCHANGED <<green_pos, blue_pos, strip>>
          /\ (thr[t].pc = "acquire" /\ thr'[t].pc = "read_q") =>
                thr'[t].normal = normal_active
          /\ (thr[t].pc = "read_q" /\ thr'[t].pc = "frame") =>
                thr'[t].quantum = quantum_active]_vars

\* update_state(FALSE, FALSE) has returned while a render thread is inside
\* the write of a frame with a comet on it
C31_Witness ==
    /\ mpc = "idle" /\ call.op = "update_state" /\ call.res = "ok"
    /\ ~normal_active /\ ~quantum_active
    /\ \E t \in Threads : thr[t].pc = "show" /\ thr[t].buffer # OffFrame


-----------------------------------------------------------------------------
(* The order of a poll iteration: C32 under SpecMonitor                      *)

\* C32: a poll iteration runs its statements in the order node query, update
\* of the node LEDs with the set queried, partition query, update_state with
\* the flags queried, sleep, each statement that returns being followed by
\* the next; with no strip controller the partition query and update_state
\* are left out, no other statement is, and the node LEDs are updated all
\* the same.
C32_IterationOrder ==
    /\ [][(rpc = "check" /\ rpc' # rpc /\ mon_running) => rpc' = "q_nodes"]_vars
    /\ [][(rpc \in Iteration /\ rpc' # rpc /\ ~rexc') => rpc' = NextStatement(rpc)]_vars
    /\ [][(rpc = "q_nodes" /\ rpc' # rpc) =>
             run_active_nodes' = get_active_nodes(sinfo')]_vars
    /\ [][(rpc = "u_nodes" /\ rpc' # rpc) =>
             /\ lastOp'.op = "update" /\ lastOp'.arg = run_active_nodes
             /\ (lastOp'.ok /\ ~strip_enabled) => rpc' = "sleep"
             /\ (lastOp'.ok /\ strip_enabled) => rpc' = "q_parts"]_vars
    /\ [][(rpc = "q_parts" /\ rpc' # rpc) =>
             parts' = get_active_partitions(squeue')]_vars
    /\ [][(rpc = "u_strip" /\ rpc' # rpc) =>
             /\ call'.op = "update_state"
             /\ <<call'.n, call'.q>> = parts
             /\ <<normal_active', quantum_active'>> = parts]_vars
    /\ [](rpc \in {"q_parts", "u_strip"} => strip_enabled)
    /\ [](~strip_enabled => (squeue = NoQuery /\ call.op = "init"))

\* with no strip controller, an iteration on hardware has switched a node LED
\* on and is in its sleep
C32_Witness ==
    /\ ~strip_enabled
    /\ rpc = "sleep"
    /\ ~simulation_mode
    /\ lastOp.op = "update" /\ lastOp.ok
    /\ \E n \in Configured : current_states[n] /\ pin[n]


-----------------------------------------------------------------------------
(* Properties of start() and stop() in any order: C33 and C34 under          *)
(* SpecStrip                                                                 *)

\* the render loops that are executing
Loops == {t \in Threads : Live(t)}

\* C33: after any sequence of start() and stop() calls at most one render
\* loop is executing; so a start() that returns finds no loop of an earlier
\* start() alive, and the phase counters are advanced by one thread only.
C33_OneRenderLoop ==
    /\ [](Cardinality(Loops) <= 1)
    /\ [][(Start /\ call'.res = "ok") => Loops' = {animation_thread'[1]}]_vars

\* C34: once stop() has returned, and until another call is made, the strip
\* stays all-off: no render loop writes a frame after stop()'s final all-off
\* frame, whether the join ended with the thread or on its timeout.
C34_StaysOffAfterStop ==
    (mpc = "idle" /\ call.op = "stop" /\ call.res = "ok" /\ ~strip_simulation_mode) =>
        strip = OffFrame


-----------------------------------------------------------------------------
(* The ways out of SlurmLEDMonitor.run: C35 under SpecMonitor                *)

\* C35: however run() has ended, after a signal or after an error raised in
\* the poll loop, by the startup test sequence, by starting the strip or by
\* the strip controller's cleanup, NodeLEDController.cleanup has run and
\* every node LED is off.
C35_CleanupOnEveryExit ==
    rpc = "exit" =>
        /\ lastOp.op = "cleanup"
        /\ \A n \in Configured : ~current_states[n] /\ ~pin[n]


-----------------------------------------------------------------------------
(* The head from one frame to the next, in and across modes: C36 under       *)
(* SpecRender                                                                *)

\* the position passed to _render_comet for the comet of channel k in the
\* frame t: green_pos for green; for blue num_leds - 1 - blue_pos in a dual
\* frame and blue_pos in a frame of the blue comet alone
HeadIndex(t, k) ==
    IF k = 2 THEN t.green_pos
    ELSE IF t.normal THEN config.strip_led_count - 1 - t.blue_pos
    ELSE t.blue_pos

\* C36: in two frames built one after the other that both draw the comet of a
\* colour, the head indices of that comet differ by exactly 1 modulo the
\* strip length (one step up or one step down), also when the first frame is
\* a single-activity frame and the second a dual-activity frame or the other
\* way round.
C36_HeadMovesByOne ==
    [][tick # NoTick =>
          \A k \in {2, 3} :
             (Drawn(tick[1], k) /\ Drawn(tick'[1], k)) =>
                LET N == config.strip_led_count
                    step == (HeadIndex(tick'[1], k) - HeadIndex(tick[1], k)) % N
                IN step \in {1 % N, (N - 1) % N}]_vars


-----------------------------------------------------------------------------
(* The flags reach the strip: C37 under SpecRunLoopFair                      *)

\* the frames the loop builds from the copies (n, q), at any counters
FramesOf(n, q) == {render_frame(n, q, g, b) : g \in Pixels, b \in Pixels}

\* update_state(n, q) has returned on a running engine on hardware whose
\* render thread is alive, and no call has been made since
Settled(n, q) ==
    /\ mpc = "idle" /\ call.op = "update_state" /\ call.res = "ok"
    /\ call.n = n /\ call.q = q
    /\ running /\ ~strip_simulation_mode
    /\ Live(animation_thread[1])

\* the frame on the strip, the frame being written and the copies of the
\* frame being built are all of (n, q)
Shown(n, q) ==
    /\ strip \in FramesOf(n, q)
    /\ \A t \in Threads :
          /\ thr[t].pc = "show" => thr[t].buffer \in FramesOf(n, q)
          /\ thr[t].pc = "frame" => <<thr[t].normal, thr[t].quantum>> = <<n, q>>

\* C37: while the engine runs and no strip write fails, if update_state(n, q)
\* has returned and no call follows it, then from some frame on every frame
\* the render loop builds and pushes is computed from (n, q), and frames go
\* on being pushed; for (FALSE, FALSE) the strip becomes all-off and stays so.
C37_FlagsReachStrip ==
    \A n \in BOOLEAN, q \in BOOLEAN :
        <>[]Settled(n, q) =>
            /\ <>[]Shown(n, q)
            /\ []<>(\E t \in Threads : thr[t].pc = "show")
            /\ (~n /\ ~q) => <>[](strip = OffFrame)

\* update_state(TRUE, TRUE) changed the flags and returned, and a frame with
\* both comets is on the strip
C37_Witness ==
    /\ Settled(TRUE, TRUE) /\ call.log = 1
    /\ Shown(TRUE, TRUE)


-----------------------------------------------------------------------------
(* The GPIO chip handle from construction to cleanup: C38 under              *)
(* SpecConstruct                                                             *)

\* C38: whatever happened in the constructor after gpiochip_open returned, a
\* claim or a write raising and the controller falling back to simulation
\* mode included, once cleanup() has returned no handle opened by the
\* constructor is still open.
C38_HandleClosed ==
    (lastOp.op = "cleanup" /\ lastOp.ok) => handle \in {"none", "closed"}

=============================================================================
